---- MODULE Spec2Model ----
(***************************************************************************)
(* Mode state machine and puzzle scheduler of the Chess PGN Trainer.       *)
(*                                                                         *)
(* The repository holds several generations of game-modes.js.  Modelled    *)
(* here:                                                                   *)
(*   - the integrated module (src/unnamed/part_004): Repetition (level-    *)
(*     gated) mode and Spaced Repetition (SM-2, "Infinity") mode;          *)
(*   - the combo module (src/assets/game-modes.js, lines 1-499): Haste     *)
(*     mode with combo thresholds and the mode timer.                      *)
(*                                                                         *)
(* The program's globals are kept in one record, g, whose fields carry the *)
(* names of the JavaScript globals.  Every handler of the source is an     *)
(* operator from a globals record to a globals record, so that a handler   *)
(* that calls other handlers is the composition of their operators.        *)
(*                                                                         *)
(* Numbers: easeFactor is kept in hundredths (2.5 is 250, the floor 1.3 is *)
(* 130), so that the SM-2 arithmetic stays in the integers; time is in     *)
(* milliseconds as returned by Date.now().                                 *)
(***************************************************************************)
EXTENDS Integers, Sequences, FiniteSets, TLC

VARIABLES
    g,        \* the program's globals after the last handler
    now,      \* the clock read by Date.now()
    pre,      \* history: the globals before the last handler
    preNow,   \* history: the clock at the last queue build
    lastOp,   \* history: the last handler that ran
    ret,      \* history: the last answer of shouldContinueToNextPuzzle
    blockErr, \* history: an incorrect move occurred in the current block attempt
    blockDone,\* history: puzzles completed in the current block attempt
    reviews,  \* history: spaced-repetition completions since the page loaded
    bonus5    \* history: +5 s combo bonuses since the mode state was reset

vars == <<g, now, pre, preNow, lastOp, ret, blockErr, blockDone, reviews, bonus5>>

----------------------------------------------------------------------------
(* Bounds of the model *)

MaxPuzzles   == 4   \* puzzle sets of 1..MaxPuzzles puzzles
MaxLevelSize == 3   \* block sizes 1..MaxLevelSize (and the source's 20)
MaxDays      == 2   \* the clock runs up to MaxDays days
MaxReviews   == 3   \* spaced-repetition completions followed per page load
MaxInterval  == 15  \* a clean solve is taken while the interval stays <= this
MaxSolved    == 1   \* completions are taken while totalSolved < MaxSolved

----------------------------------------------------------------------------
(* Mode registry (part_004) *)

STANDARD   == "standard"
REPETITION == "repetition"
THREE      == "three"
HASTE      == "haste"
COUNTDOWN  == "countdown"
SPEEDRUN   == "speedrun"
INFINITY   == "infinity"

GAME_MODES == {STANDARD, REPETITION, THREE, HASTE, COUNTDOWN, SPEEDRUN, INFINITY}

\* A field a Mode Definition does not have reads as undefined in the source;
\* it is 0 / FALSE here, which is what `x || 0` and `if (x)` make of it.
MODE_CONFIGS ==
    [m \in GAME_MODES |->
        [hasTimer   |-> m \in {THREE, HASTE, COUNTDOWN, SPEEDRUN},
         hasLives   |-> m = THREE,
         hasHints   |-> m = THREE,
         hasLevels  |-> m = REPETITION,
         isSpeedrun |-> m = SPEEDRUN,
         timeLimit  |-> IF m = THREE THEN 180 ELSE IF m = COUNTDOWN THEN 600 ELSE 0,
         baseTime   |-> IF m = HASTE THEN 30 ELSE 0,
         timeGain   |-> IF m = HASTE THEN 5 ELSE 0,
         timeLoss   |-> IF m = HASTE THEN 10 ELSE 0,
         lives      |-> IF m = THREE THEN 3 ELSE 0,
         hints      |-> IF m = THREE THEN 3 ELSE 0]]

\* MODE_CONFIGS[REPETITION].puzzlesPerLevel is 20 in the source.  The block
\* size is a parameter of the model, drawn at Init from LevelSizes.
puzzlesPerLevelDefault == 20
LevelSizes == (1..MaxLevelSize) \cup {puzzlesPerLevelDefault}

null      == 0      \* modeTimer: no interval
Undefined == -1     \* puzzleset[PuzzleOrder[increment]] out of range

----------------------------------------------------------------------------
(* Spaced repetition (SM-2), part_004 *)

msPerDay == 24 * 60 * 60 * 1000

max(a, b) == IF a >= b THEN a ELSE b
min(a, b) == IF a <= b THEN a ELSE b

\* Math.round(x / 100) for x >= 0: halves round up.
roundHundredths(x) == (x + 50) \div 100

srGetStorageKey(s) == s.srCurrentPgnFile

\* raw ? JSON.parse(raw) : {}   (the stored text is what srSaveCards wrote)
srLoadCards(s) ==
    [s EXCEPT !.srCards =
        IF srGetStorageKey(s) \in DOMAIN s.localStorage
        THEN s.localStorage[srGetStorageKey(s)]
        ELSE << >>]

srSaveCards(s) ==
    [s EXCEPT !.localStorage =
        (srGetStorageKey(s) :> s.srCards) @@ s.localStorage]

hasCard(cards, i) == i \in DOMAIN cards

srGetCard(s, puzzleIndex, t) ==
    IF ~hasCard(s.srCards, puzzleIndex)
    THEN [s EXCEPT !.srCards =
            (puzzleIndex :> [index       |-> puzzleIndex,
                             interval    |-> 1,
                             easeFactor  |-> 250,
                             repetitions |-> 0,
                             nextReview  |-> t,
                             due         |-> TRUE]) @@ s.srCards]
    ELSE s

\* 0.1 - (5 - quality) * (0.08 + (5 - quality) * 0.02), in hundredths
easeDelta(quality) == 10 - (5 - quality) * (8 + (5 - quality) * 2)

failedNextReview_late(t) == t + msPerDay
failedNextReview(t) == t - 1

cleanInterval_noGrowth(card) ==
    IF card.repetitions = 0 THEN 1
    ELSE IF card.repetitions = 1 THEN 6
    ELSE card.interval

cleanInterval(card) ==
    IF card.repetitions = 0 THEN 1
    ELSE IF card.repetitions = 1 THEN 6
    ELSE roundHundredths(card.interval * card.easeFactor)

srApplySM2(card, quality, t) ==
    LET c1 == [card EXCEPT !.easeFactor = max(130, @ + easeDelta(quality))]
    IN  IF quality < 3
        THEN [c1 EXCEPT !.repetitions = 0,
                        !.interval    = 1,
                        !.nextReview  = failedNextReview(t),
                        !.due         = TRUE]
        ELSE LET iv == cleanInterval(c1)
             IN  [c1 EXCEPT !.interval    = iv,
                            !.repetitions = @ + 1,
                            !.nextReview  = t + iv * msPerDay,
                            !.due         = FALSE]

\* Comparators of the two Array.prototype.sort calls (negative: a first).
dueCompare_ascending(a, b) == a.overdue - b.overdue
dueCompare(a, b) == b.overdue - a.overdue

futureCompare(a, b) == a.nextReview - b.nextReview

compare(kind, a, b) ==
    IF kind = "due" THEN dueCompare(a, b) ELSE futureCompare(a, b)

\* Array.prototype.sort is stable: insertion keeps equal keys in input order.
insertSorted(kind, sorted, x) ==
    LET p == Cardinality({k \in 1..Len(sorted) : compare(kind, sorted[k], x) <= 0})
    IN  SubSeq(sorted, 1, p) \o <<x>> \o SubSeq(sorted, p + 1, Len(sorted))

RECURSIVE sort(_, _)
sort(kind, seq) ==
    IF seq = << >> THEN << >>
    ELSE insertSorted(kind, sort(kind, SubSeq(seq, 1, Len(seq) - 1)), seq[Len(seq)])

isDue_strict(card, t) == card.nextReview < t
isDue(card, t) == card.nextReview <= t

srBuildQueue(cards, totalPuzzles, t) ==
    LET idx      == [k \in 1..totalPuzzles |-> k - 1]
        freshI   == SelectSeq(idx, LAMBDA i : ~hasCard(cards, i))
        dueI     == SelectSeq(idx, LAMBDA i : hasCard(cards, i) /\ isDue(cards[i], t))
        futureI  == SelectSeq(idx, LAMBDA i : hasCard(cards, i) /\ ~isDue(cards[i], t))
        due      == [k \in 1..Len(dueI) |->
                        [i |-> dueI[k], overdue |-> t - cards[dueI[k]].nextReview]]
        future   == [k \in 1..Len(futureI) |->
                        [i |-> futureI[k], nextReview |-> cards[futureI[k]].nextReview]]
        dueS     == sort("due", due)
        futureS  == sort("future", future)
    IN  [k \in 1..Len(dueS) |-> dueS[k].i]
        \o freshI
        \o [k \in 1..Len(futureS) |-> futureS[k].i]

----------------------------------------------------------------------------
(* Session-queue hooks of the spaced repetition mode (part_004) *)

pgnFileKey == "pgn"   \* ($('#openPGN').val() || 'default') with non-alphanumerics replaced

srInitSession(s, t) ==
    LET s1 == srLoadCards([s EXCEPT !.srCurrentPgnFile        = pgnFileKey,
                                    !.srCurrentPuzzleHadError = FALSE])
    IN  [s1 EXCEPT !.PuzzleOrder = srBuildQueue(s1.srCards, s1.puzzleset, t),
                   !.increment   = 0]

srOnPuzzleStart(s) == [s EXCEPT !.srCurrentPuzzleHadError = FALSE]

srOnError(s) == [s EXCEPT !.srCurrentPuzzleHadError = TRUE]

qualityOf_alwaysClean(hadError) == 4
qualityOf(hadError) == IF hadError THEN 1 ELSE 4

\* PuzzleOrder[increment] is read with the 0-based cursor of the source.
srOnPuzzleComplete(s, t) ==
    LET puzzleIndex == s.PuzzleOrder[s.increment + 1]
        s1          == srGetCard(s, puzzleIndex, t)
        quality     == qualityOf(s.srCurrentPuzzleHadError)
        s2          == [s1 EXCEPT !.srCards[puzzleIndex] = srApplySM2(@, quality, t)]
    IN  [srSaveCards(s2) EXCEPT !.srCurrentPuzzleHadError = FALSE]

srAdvance_keepOrder(s, t) == [s EXCEPT !.increment = -1]
srAdvance(s, t) ==
    [s EXCEPT !.PuzzleOrder = srBuildQueue(s.srCards, s.puzzleset, t),
              !.increment   = -1]

----------------------------------------------------------------------------
(* Mode switching, reset and timer (part_004) *)

stopModeTimer(s) ==
    [s EXCEPT !.timers              = {tm \in @ : tm.id # s.modeState.modeTimer},
              !.modeState.modeTimer = null,
              !.modeState.isActive  = FALSE]

\* resetGame of the main application (part_008)
resetGame(s) ==
    [s EXCEPT !.puzzleset   = 0,
              !.increment   = 0,
              !.PuzzleOrder = << >>,
              !.setcomplete = FALSE,
              !.loaded      = Undefined]

\* MODE_CONFIGS[currentGameMode] is undefined: reading a property of it
\* throws a TypeError, which leaves the function at that point.
typeError(s) == s.currentGameMode \notin DOMAIN MODE_CONFIGS

resetModeState(s) ==
    IF typeError(s) THEN s ELSE
    LET config == MODE_CONFIGS[s.currentGameMode]
    IN  [s EXCEPT
            !.modeState =
                [timeRemaining  |-> IF config.timeLimit # 0 THEN config.timeLimit
                                    ELSE config.baseTime,
                 livesRemaining |-> config.lives,
                 hintsRemaining |-> config.hints,
                 currentLevel   |-> 1,
                 levelProgress  |-> 0,
                 levelErrors    |-> 0,
                 totalSolved    |-> 0,
                 modeTimer      |-> null,
                 isActive       |-> FALSE],
            !.repetitionSetStartIndex = 0,
            !.repetitionSetHadError   = FALSE]

\* confirmed: the user's answer to confirm(), asked only while isActive
setGameMode(s, mode, confirmed) ==
    IF s.modeState.isActive /\ ~confirmed
    THEN s
    ELSE LET s1 == IF s.modeState.isActive THEN resetGame(stopModeTimer(s)) ELSE s
         IN  resetModeState([s1 EXCEPT !.currentGameMode = mode])

\* The call ends in the TypeError of resetModeState.
setGameModeThrows(s, mode, confirmed) ==
    /\ ~(s.modeState.isActive /\ ~confirmed)
    /\ typeError([s EXCEPT !.currentGameMode = mode])

startModeTimer(s) ==
    IF typeError(s) THEN s
    ELSE LET config == MODE_CONFIGS[s.currentGameMode]
         IN  IF ~config.hasTimer THEN s
             ELSE LET s1 == stopModeTimer(s)
                      id == CHOOSE id \in 1..(Cardinality(s1.timers) + 1) :
                                        \A tm \in s1.timers : tm.id # id
                  IN  [s1 EXCEPT !.timers                  =
                                     @ \cup {[id |-> id, speedrun |-> config.isSpeedrun]},
                                 !.modeState.isActive      = TRUE,
                                 !.modeState.modeTimer     = id,
                                 !.modeState.timeRemaining =
                                     IF config.isSpeedrun THEN 0 ELSE @]

endGameSession(s) == [stopModeTimer(s) EXCEPT !.ended = @ + 1]

handleTimeUp(s) ==
    LET s1 == stopModeTimer(s)
    IN  IF s.currentGameMode \in {THREE, HASTE, COUNTDOWN} THEN endGameSession(s1) ELSE s1

----------------------------------------------------------------------------
(* Move and puzzle event hooks (part_004) *)

handleCorrectMove(s) ==
    IF s.currentGameMode \in {REPETITION, INFINITY} THEN s
    ELSE LET s1 == [s EXCEPT !.modeState.totalSolved = @ + 1]
         IN  IF s.currentGameMode = HASTE
             THEN [s1 EXCEPT !.modeState.timeRemaining =
                                @ + MODE_CONFIGS[HASTE].timeGain]
             ELSE s1

\* An incorrect move that ends the session in Repetition mode as well.
handleIncorrectMove_endsSession(s) ==
    IF s.currentGameMode = REPETITION
    THEN endGameSession([s EXCEPT !.repetitionSetHadError = TRUE])
    ELSE s

handleIncorrectMove(s) ==
    IF s.currentGameMode = REPETITION THEN [s EXCEPT !.repetitionSetHadError = TRUE]
    ELSE IF s.currentGameMode = INFINITY THEN srOnError(s)
    ELSE IF s.currentGameMode = THREE
    THEN LET s1 == [s EXCEPT !.modeState.livesRemaining = @ - 1]
         IN  IF s1.modeState.livesRemaining <= 0 THEN endGameSession(s1) ELSE s1
    ELSE IF s.currentGameMode = HASTE
    THEN LET s1 == [s EXCEPT !.modeState.timeRemaining =
                                max(0, @ - MODE_CONFIGS[HASTE].timeLoss)]
         IN  IF s1.modeState.timeRemaining <= 0 THEN handleTimeUp(s1) ELSE s1
    ELSE s

countsTowardLevel_always(s) == TRUE
countsTowardLevel(s) == ~s.repetitionSetHadError

handlePuzzleComplete(s, t) ==
    IF s.currentGameMode = REPETITION
    THEN IF countsTowardLevel(s)
         THEN [s EXCEPT !.modeState.levelProgress = @ + 1]
         ELSE s
    ELSE IF s.currentGameMode = INFINITY THEN srOnPuzzleComplete(s, t)
    ELSE s

handleHintUsed(s) ==
    LET s1 == IF s.currentGameMode = INFINITY THEN srOnError(s) ELSE s
    IN  IF MODE_CONFIGS[s.currentGameMode].hasHints
        THEN [s1 EXCEPT !.modeState.hintsRemaining = @ - 1]
        ELSE s1

handlePuzzleStart(s) ==
    IF s.currentGameMode = INFINITY THEN srOnPuzzleStart(s) ELSE s

----------------------------------------------------------------------------
(* Puzzle advancement (part_004) *)

setWasClean_ignoreProgress(s) == ~s.repetitionSetHadError
setWasClean_strict(s) ==
    ~s.repetitionSetHadError /\ s.modeState.levelProgress > s.puzzlesPerLevel
setWasClean(s) ==
    ~s.repetitionSetHadError /\ s.modeState.levelProgress >= s.puzzlesPerLevel

restartIncrement_stay(s) == s.increment - 1
restartIncrement(s) == s.repetitionSetStartIndex - 1

\* Returns the globals after the call and the answer.
shouldContinueToNextPuzzle(s, t) ==
    IF s.currentGameMode = INFINITY
    THEN [s |-> srAdvance(s, t), ret |-> TRUE]
    ELSE IF s.currentGameMode = REPETITION
    THEN LET puzzlesCompletedInSet == (s.increment - s.repetitionSetStartIndex) + 1
             s1 == [s EXCEPT !.repetitionSetHadError = FALSE]
         IN  IF puzzlesCompletedInSet < s.puzzlesPerLevel
             THEN [s |-> s1, ret |-> TRUE]
             ELSE IF setWasClean(s)
             THEN [s |-> [s1 EXCEPT !.modeState.currentLevel  = @ + 1,
                                    !.modeState.levelProgress = 0,
                                    !.repetitionSetStartIndex = s.increment + 1],
                   ret |-> TRUE]
             ELSE [s |-> [s1 EXCEPT !.modeState.levelProgress = 0,
                                    !.increment = restartIncrement(s)],
                   ret |-> TRUE]
    ELSE [s |-> s, ret |-> s.increment + 1 < s.puzzleset]

onStartTest(s, t) ==
    IF s.currentGameMode = INFINITY THEN srInitSession(s, t) ELSE s

----------------------------------------------------------------------------
(* The main application around the hooks.  loadPGNFile and loadPuzzle are   *)
(* in part_008; the call sequence around the hooks ("the caller does       *)
(* increment += 1 before loadPuzzle", the puzzle-start hook inside         *)
(* loadPuzzle, onStartTest before the first puzzle loads) is given by the  *)
(* comments of part_004.                                                   *)

inRange(s) == s.increment >= 0 /\ s.increment < Len(s.PuzzleOrder)

\* loadPuzzle(puzzleset[PuzzleOrder[increment]]); an index past the end
\* yields undefined, and loadPuzzle(undefined) throws at puzzle.pgn.
loadPuzzle(s) ==
    IF inRange(s)
    THEN handlePuzzleStart([s EXCEPT !.loaded = s.PuzzleOrder[s.increment + 1],
                                     !.error  = FALSE])
    ELSE [s EXCEPT !.loaded = Undefined]

identityOrder(n) == [k \in 1..n |-> k - 1]

\* checkAndPlayNext, wrong move: the mode hook, then error = true
wrongMove(s) == [handleIncorrectMove(s) EXCEPT !.error = TRUE]

\* checkAndPlayNext, last correct move of the puzzle
puzzleSolved(s, t) ==
    LET s1 == handlePuzzleComplete(handleCorrectMove(s), t)
        r  == shouldContinueToNextPuzzle(s1, t)
    IN  IF r.ret
        THEN loadPuzzle([r.s EXCEPT !.increment = @ + 1])
        ELSE [r.s EXCEPT !.setcomplete = TRUE]

startTest(s, t) ==
    LET s1 == onStartTest([s EXCEPT !.setcomplete = FALSE], t)
    IN  loadPuzzle(s1)

\* The globals after page load, initializeGameModes and loadPGNFile of a
\* file with n puzzles (randomizeSet unchecked), block size N.
loadedGlobals(n, N) ==
    [currentGameMode         |-> STANDARD,
     modeState               |-> [timeRemaining |-> 0, livesRemaining |-> 0,
                                  hintsRemaining |-> 0, currentLevel |-> 1,
                                  levelProgress |-> 0, levelErrors |-> 0,
                                  totalSolved |-> 0, modeTimer |-> null,
                                  isActive |-> FALSE],
     repetitionSetStartIndex |-> 0,
     repetitionSetHadError   |-> FALSE,
     srCards                 |-> << >>,
     srCurrentPgnFile        |-> "",
     srCurrentPuzzleHadError |-> FALSE,
     localStorage            |-> << >>,
     puzzleset               |-> n,
     PuzzleOrder             |-> identityOrder(n),
     increment               |-> 0,
     setcomplete             |-> FALSE,
     loaded                  |-> 0,
     error                   |-> FALSE,
     puzzlesPerLevel         |-> N,
     timers                  |-> {},
     ended                   |-> 0]

canMove == g.loaded # Undefined /\ ~g.setcomplete

----------------------------------------------------------------------------
(* Actions: one per event of the page *)

History ==
    [g |-> g, now |-> now, preNow |-> preNow, lastOp |-> lastOp,
     blockErr |-> blockErr, blockDone |-> blockDone, bonus5 |-> bonus5]

\* The intervals, the solved counter and the length of a session are
\* unbounded in the source; the model follows a card while its interval
\* stays within MaxInterval and a session while totalSolved stays below
\* MaxSolved and its reviews below MaxReviews.  A started session on a set
\* of one puzzle has one card, whose states are few: it is followed to any
\* length.
withinCap(s) ==
    /\ s.modeState.totalSolved < MaxSolved
    /\ (s.currentGameMode = INFINITY /\ ~(s.puzzleset = 1 /\ s.srCurrentPgnFile = pgnFileKey))
           => reviews < MaxReviews
    /\ ((s.currentGameMode = INFINITY /\ ~s.srCurrentPuzzleHadError) =>
        LET i == s.PuzzleOrder[s.increment + 1]
        IN  (hasCard(s.srCards, i) /\ s.srCards[i].repetitions >= 2) =>
                s.srCards[i].interval * s.srCards[i].easeFactor <= MaxInterval * 100 + 49)

retOf(s, t) ==
    shouldContinueToNextPuzzle(handlePuzzleComplete(handleCorrectMove(s), t), t).ret

\* A block attempt begins when the cursor stands on the block start index.
attemptBegins(s) == s.increment = s.repetitionSetStartIndex

\* The user plays a legal move that is not the solution's move.
WrongMove ==
    /\ canMove
    /\ g' = wrongMove(g)
    /\ pre' = History
    /\ lastOp' = "wrongMove"
    /\ blockErr' = IF g.currentGameMode = REPETITION THEN TRUE ELSE blockErr
    /\ UNCHANGED <<now, preNow, ret, blockDone, reviews, bonus5>>

\* The user plays the last move of the puzzle's solution.
PuzzleSolved ==
    /\ canMove
    /\ withinCap(g)
    /\ g' = puzzleSolved(g, now)
    /\ pre' = History
    /\ lastOp' = "puzzleSolved"
    /\ ret' = retOf(g, now)
    /\ preNow' = IF g.currentGameMode = INFINITY THEN now ELSE preNow
    /\ IF g.currentGameMode = REPETITION
       THEN IF attemptBegins(g')
            THEN blockErr' = FALSE /\ blockDone' = 0
            ELSE blockErr' = blockErr /\ blockDone' = blockDone + 1
       ELSE UNCHANGED <<blockErr, blockDone>>
    /\ reviews' = IF g.currentGameMode = INFINITY THEN min(reviews + 1, MaxReviews) ELSE reviews
    /\ UNCHANGED <<now, bonus5>>

\* The user picks Repetition in the mode selector.
SelectRepetition ==
    /\ \E confirmed \in BOOLEAN : g' = setGameMode(g, REPETITION, confirmed)
    /\ pre' = History
    /\ lastOp' = "setGameMode"
    /\ blockErr' = FALSE
    /\ blockDone' = 0
    /\ UNCHANGED <<now, preNow, ret, reviews, bonus5>>

InitRep ==
    /\ \E n \in 1..MaxPuzzles, N \in LevelSizes : g = loadedGlobals(n, N)
    /\ now = 0
    /\ pre = [g |-> g, now |-> 0, preNow |-> 0, lastOp |-> "loadPGNFile",
              blockErr |-> FALSE, blockDone |-> 0, bonus5 |-> 0]
    /\ preNow = 0
    /\ lastOp = "loadPGNFile"
    /\ ret = TRUE
    /\ blockErr = FALSE
    /\ blockDone = 0
    /\ reviews = 0
    /\ bonus5 = 0

NextRep == WrongMove \/ PuzzleSolved \/ SelectRepetition

SpecRep == InitRep /\ [][NextRep]_vars

----------------------------------------------------------------------------
(* Spaced repetition sessions *)

MaxSRPuzzles == 2   \* puzzle sets of 1..MaxSRPuzzles puzzles in these sessions

\* A day passes.
Tick ==
    /\ now \div msPerDay < MaxDays
    /\ now' = now + msPerDay
    /\ UNCHANGED <<g, pre, preNow, lastOp, ret, blockErr, blockDone, reviews, bonus5>>

\* The user picks Spaced Repetition in the mode selector.
SelectInfinity ==
    /\ \E confirmed \in BOOLEAN : g' = setGameMode(g, INFINITY, confirmed)
    /\ pre' = History
    /\ lastOp' = "setGameMode"
    /\ UNCHANGED <<now, preNow, ret, blockErr, blockDone, reviews, bonus5>>

\* The user presses Start.
StartTest ==
    /\ g.puzzleset > 0
    /\ g' = startTest(g, now)
    /\ pre' = History
    /\ lastOp' = "startTest"
    /\ preNow' = IF g.currentGameMode = INFINITY THEN now ELSE preNow
    /\ UNCHANGED <<now, ret, blockErr, blockDone, reviews, bonus5>>

InitSR ==
    /\ \E n \in 1..MaxSRPuzzles : g = loadedGlobals(n, puzzlesPerLevelDefault)
    /\ now = 0
    /\ pre = [g |-> g, now |-> 0, preNow |-> 0, lastOp |-> "loadPGNFile",
              blockErr |-> FALSE, blockDone |-> 0, bonus5 |-> 0]
    /\ preNow = 0
    /\ lastOp = "loadPGNFile"
    /\ ret = TRUE
    /\ blockErr = FALSE
    /\ blockDone = 0
    /\ reviews = 0
    /\ bonus5 = 0

NextSR == Tick \/ WrongMove \/ PuzzleSolved \/ SelectInfinity \/ StartTest

SpecSR == InitSR /\ [][NextSR]_vars

----------------------------------------------------------------------------
(* Level-gated (Repetition) mode: claims *)

\* The step just taken completed, in Repetition mode, the N-th puzzle of the
\* block that starts at repetitionSetStartIndex.
blockEndStep ==
    /\ lastOp = "puzzleSolved"
    /\ pre.g.currentGameMode = REPETITION
    /\ pre.g.increment = pre.g.repetitionSetStartIndex + pre.g.puzzlesPerLevel - 1

\* C1: when the N-th puzzle of a block completes and an incorrect move
\* occurred on any puzzle of the block, the puzzle loaded next is the one at
\* the block's start index, levelProgress is 0, and the block start index
\* and currentLevel are unchanged.
C1_DirtyBlockRewinds ==
    (blockEndStep /\ pre.blockErr) =>
        /\ g.increment = pre.g.repetitionSetStartIndex
        /\ g.loaded = pre.g.PuzzleOrder[pre.g.repetitionSetStartIndex + 1]
        /\ g.modeState.levelProgress = 0
        /\ g.repetitionSetStartIndex = pre.g.repetitionSetStartIndex
        /\ g.modeState.currentLevel = pre.g.modeState.currentLevel

\* The error was made on an earlier puzzle of the block, the last one was clean.
C1_Witness ==
    /\ blockEndStep
    /\ pre.blockErr
    /\ ~pre.g.repetitionSetHadError
    /\ pre.g.puzzlesPerLevel >= 2
    /\ g.increment = pre.g.repetitionSetStartIndex

\* C2: when all N puzzles of a block were completed with no incorrect move,
\* shouldContinueToNextPuzzle answers advance at the block boundary, the
\* block start index grows by exactly N, currentLevel by exactly 1, and
\* levelProgress is reset to 0.
C2_CleanBlockAdvances ==
    (blockEndStep /\ ~pre.blockErr /\ pre.blockDone = pre.g.puzzlesPerLevel - 1) =>
        /\ ret = TRUE
        /\ g.repetitionSetStartIndex =
              pre.g.repetitionSetStartIndex + pre.g.puzzlesPerLevel
        /\ g.modeState.currentLevel = pre.g.modeState.currentLevel + 1
        /\ g.modeState.levelProgress = 0

C2_Witness ==
    /\ blockEndStep
    /\ ~pre.blockErr
    /\ pre.blockDone = pre.g.puzzlesPerLevel - 1
    /\ pre.g.puzzlesPerLevel >= 2
    /\ g.modeState.currentLevel = 2

\* C3: with a block size N > 1 and a puzzle set of exactly one puzzle,
\* completing the puzzle is the completion of a whole block: the verdict is
\* taken at once (level up if clean, restart of the same puzzle if not) and
\* the cursor never passes the single puzzle.
C3_SinglePuzzleIsBlock ==
    (/\ lastOp = "puzzleSolved"
     /\ pre.g.currentGameMode = REPETITION
     /\ pre.g.puzzleset = 1
     /\ pre.g.puzzlesPerLevel > 1) =>
        /\ g.increment < g.puzzleset
        /\ IF pre.blockErr
           THEN /\ g.modeState.currentLevel = pre.g.modeState.currentLevel
                /\ g.loaded = pre.g.loaded
           ELSE g.modeState.currentLevel = pre.g.modeState.currentLevel + 1

----------------------------------------------------------------------------
(* srBuildQueue on the cards an earlier session left in storage *)

MaxBuildPuzzles == 3   \* puzzle sets of 1..MaxBuildPuzzles puzzles

\* What an earlier session did with a puzzle: nothing, or on some day a
\* first completion with an error, a clean one, or two clean ones.
CardHistories ==
    [kind : {"none"}, day : {0}]
        \cup [kind : {"failed", "clean", "cleanTwice"}, day : 0..MaxDays]

storedCard(i, h) ==
    LET t  == h.day * msPerDay
        c1 == srApplySM2(srGetCard([srCards |-> << >>], i, t).srCards[i],
                         qualityOf(h.kind = "failed"), t)
    IN  IF h.kind = "cleanTwice" THEN srApplySM2(c1, qualityOf(FALSE), t) ELSE c1

cardsOf(n, hist) ==
    [i \in {j \in 0..(n - 1) : hist[j].kind # "none"} |-> storedCard(i, hist[i])]

\* Puzzle Order is rebuilt from the cards at the current time.
Rebuild ==
    /\ g' = [g EXCEPT !.PuzzleOrder = srBuildQueue(g.srCards, g.puzzleset, now)]
    /\ pre' = History
    /\ lastOp' = "srBuildQueue"
    /\ preNow' = now
    /\ UNCHANGED <<now, ret, blockErr, blockDone, reviews, bonus5>>

InitBuild ==
    /\ \E n \in 1..MaxBuildPuzzles, t0 \in 0..MaxDays :
          \E hist \in [0..(n - 1) -> CardHistories] :
              /\ \A i \in 0..(n - 1) : hist[i].day <= t0
              /\ g = [srCards |-> cardsOf(n, hist), puzzleset |-> n,
                      PuzzleOrder |-> identityOrder(n)]
              /\ now = t0 * msPerDay
    /\ pre = [g |-> g, now |-> now, preNow |-> now, lastOp |-> "loadPGNFile",
              blockErr |-> FALSE, blockDone |-> 0, bonus5 |-> 0]
    /\ preNow = now
    /\ lastOp = "loadPGNFile"
    /\ ret = TRUE
    /\ blockErr = FALSE
    /\ blockDone = 0
    /\ reviews = 0
    /\ bonus5 = 0

NextBuild == Tick \/ Rebuild

SpecBuild == InitBuild /\ [][NextBuild]_vars

----------------------------------------------------------------------------
(* Adaptive (Spaced Repetition) mode: claims *)

\* The last handler completed a puzzle in adaptive mode.
reviewStep == lastOp = "puzzleSolved" /\ pre.g.currentGameMode = INFINITY

\* The puzzle that was on the board, and its card before and after.
reviewed == pre.g.PuzzleOrder[pre.g.increment + 1]
cardBefore == pre.g.srCards[reviewed]
cardAfter == g.srCards[reviewed]

\* C4: in adaptive mode the puzzle just completed with an error is the first
\* entry of the order built right after its completion, whatever other
\* cards exist.
C4_FailedPuzzleFirst ==
    (reviewStep /\ pre.g.srCurrentPuzzleHadError) => g.PuzzleOrder[1] = reviewed

\* C5: after a completion with an error the puzzle's card is due at once
\* (nextReview not later than the completion time), has repetitions 0 and
\* interval 1, whatever the card was before.
C5_FailedCardReset ==
    (reviewStep /\ pre.g.srCurrentPuzzleHadError) =>
        /\ hasCard(g.srCards, reviewed)
        /\ cardAfter.nextReview <= pre.now
        /\ cardAfter.repetitions = 0
        /\ cardAfter.interval = 1

C5_Witness ==
    /\ reviewStep /\ pre.g.srCurrentPuzzleHadError
    /\ hasCard(pre.g.srCards, reviewed)
    /\ cardBefore.repetitions >= 2 /\ cardBefore.interval > 1
    /\ cardBefore.nextReview > pre.now
    /\ cardAfter.repetitions = 0

\* C6: a clean solve of a card with repetitions >= 2 replaces its interval
\* by round(interval * easeFactor), which is strictly greater than before.
C6_CleanIntervalGrows ==
    (reviewStep /\ ~pre.g.srCurrentPuzzleHadError
     /\ hasCard(pre.g.srCards, reviewed) /\ cardBefore.repetitions >= 2) =>
        /\ cardAfter.interval = roundHundredths(cardBefore.interval * cardBefore.easeFactor)
        /\ cardAfter.interval > cardBefore.interval

C6_Witness ==
    /\ reviewStep /\ ~pre.g.srCurrentPuzzleHadError
    /\ hasCard(pre.g.srCards, reviewed) /\ cardBefore.repetitions >= 2
    /\ cardBefore.easeFactor < 250
    /\ cardAfter.interval > cardBefore.interval

\* C9: in adaptive mode every completion is answered with "advance", the
\* order is rebuilt from the updated cards before the answer, and the puzzle
\* loaded next is entry 0 of the rebuilt order, wherever the cursor was.
C9_AlwaysAdvanceToRebuiltHead ==
    reviewStep =>
        /\ ret = TRUE
        /\ ~g.setcomplete
        /\ g.PuzzleOrder = srBuildQueue(g.srCards, g.puzzleset, pre.now)
        /\ g.increment = 0
        /\ g.loaded = g.PuzzleOrder[1]

C9_Witness ==
    /\ reviewStep
    /\ pre.g.increment > 0
    /\ g.PuzzleOrder # pre.g.PuzzleOrder
    /\ g.increment = 0 /\ g.loaded = g.PuzzleOrder[1]

\* Position classes of srBuildQueue: due cards, puzzles without a card,
\* cards not yet due.
queueClass(cards, i, t) ==
    IF ~hasCard(cards, i) THEN 1
    ELSE IF cards[i].nextReview <= t THEN 0 ELSE 2

\* q lists every puzzle index once: due cards in order of decreasing
\* overdue time, then the puzzles without a card in ascending index, then
\* the cards not yet due in order of increasing nextReview.
isReviewOrder(q, cards, n, t) ==
    /\ Len(q) = n
    /\ {q[k] : k \in 1..n} = 0..(n - 1)
    /\ \A a, b \in 1..n :
          a < b =>
            LET ca == queueClass(cards, q[a], t)
                cb == queueClass(cards, q[b], t)
            IN  /\ ca <= cb
                /\ (ca = 0 /\ cb = 0) =>
                      t - cards[q[a]].nextReview >= t - cards[q[b]].nextReview
                /\ (ca = 1 /\ cb = 1) => q[a] < q[b]
                /\ (ca = 2 /\ cb = 2) =>
                      cards[q[a]].nextReview <= cards[q[b]].nextReview

\* C7: srBuildQueue returns the due cards first (decreasing overdue time),
\* then the puzzles without a card (ascending index), then the cards not yet
\* due (increasing nextReview); with no cards at all it is the identity
\* order.
C7_QueueOrder ==
    lastOp = "srBuildQueue" =>
        /\ isReviewOrder(g.PuzzleOrder, g.srCards, g.puzzleset, pre.now)
        /\ DOMAIN g.srCards = {} => g.PuzzleOrder = identityOrder(g.puzzleset)

C7_Witness ==
    /\ lastOp = "srBuildQueue"
    /\ g.puzzleset = 3
    /\ {queueClass(g.srCards, i, pre.now) : i \in 0..2} = {0, 1, 2}
    /\ g.PuzzleOrder # identityOrder(3)

\* Two rebuilds in succession, nothing but time between them.
twoRebuilds == lastOp = "srBuildQueue" /\ pre.lastOp = "srBuildQueue"

\* No card becomes due between the clock readings of the two rebuilds.
noCardFallsDue ==
    \A i \in DOMAIN g.srCards :
        ~(pre.preNow < g.srCards[i].nextReview /\ g.srCards[i].nextReview <= pre.now)

\* C8 as stated: rebuilding twice in succession, with no completion in
\* between, yields the same ordering both times.
C8_RebuildIdempotent ==
    twoRebuilds => g.PuzzleOrder = pre.g.PuzzleOrder

\* C8 (amended): rebuilding twice in succession, with no completion in
\* between, yields the same ordering both times provided no card's
\* nextReview lies after the clock reading of the first rebuild and not
\* after that of the second.
C8_RebuildIdempotentWhileNoCardFallsDue ==
    (twoRebuilds /\ noCardFallsDue) => g.PuzzleOrder = pre.g.PuzzleOrder

C8_Witness ==
    /\ twoRebuilds /\ noCardFallsDue
    /\ pre.preNow < pre.now
    /\ \E i, j \in DOMAIN g.srCards :
          g.srCards[i].nextReview <= pre.preNow /\ g.srCards[j].nextReview > pre.now
    /\ g.PuzzleOrder # identityOrder(g.puzzleset)

----------------------------------------------------------------------------
(* Timed modes of assets/game-modes.js (the hook-based module; its          *)
(* definitions carry the suffix _gm where part_004 has one of the same      *)
(* name)                                                                    *)

MaxHastePuzzles == 10  \* the timed sessions run on a set of this many puzzles
MaxEnded        == 1   \* end-of-session alerts are counted up to MaxEnded
MaxSeconds      == 1   \* a timed session is followed for MaxSeconds timer ticks

comboThresholds ==
    << [at |-> 2,  gain |-> 3],  [at |-> 5,  gain |-> 5], [at |-> 10, gain |-> 8],
       [at |-> 20, gain |-> 12], [at |-> 30, gain |-> 15] >>

MODE_CONFIGS_gm ==
    LET base == [hasTimer |-> FALSE, hasLives |-> FALSE, hasHints |-> FALSE,
                 hasLevels |-> FALSE, hasCombo |-> FALSE, isSpeedrun |-> FALSE,
                 timeLimit |-> 0, baseTime |-> 0, timeLoss |-> 0,
                 lives |-> 0, hints |-> 0]
    IN  [m \in GAME_MODES |->
            CASE m = REPETITION -> [base EXCEPT !.hasLevels = TRUE]
              [] m = THREE      -> [base EXCEPT !.hasTimer = TRUE, !.hasLives = TRUE,
                                                !.hasHints = TRUE, !.timeLimit = 180,
                                                !.lives = 3, !.hints = 3]
              [] m = HASTE      -> [base EXCEPT !.hasTimer = TRUE, !.hasCombo = TRUE,
                                                !.baseTime = 180, !.timeLoss = 30]
              [] m = COUNTDOWN  -> [base EXCEPT !.hasTimer = TRUE, !.timeLimit = 600]
              [] m = SPEEDRUN   -> [base EXCEPT !.hasTimer = TRUE, !.isSpeedrun = TRUE]
              [] OTHER          -> base]

\* clearInterval of the handle kept in modeState, if any
stopModeTimer_gm(s) ==
    [s EXCEPT !.timers              = {tm \in @ : tm.id # s.modeState.modeTimer},
              !.modeState.modeTimer = null,
              !.modeState.isActive  = FALSE]

\* ended counts the alerts; over records that the session was ended and
\* modeState not reset since
endGameSession_gm(s) ==
    [stopModeTimer_gm(s) EXCEPT !.ended = min(@ + 1, MaxEnded), !.over = TRUE]

handleTimeUp_gm(s) == endGameSession_gm(stopModeTimer_gm(s))

\* config.timeLimit || config.baseTime || 0; the modeState object is
\* replaced: a handle it held is dropped, not cleared
resetModeState_gm(s) ==
    LET config == MODE_CONFIGS_gm[s.currentGameMode]
    IN  [s EXCEPT !.modeState =
            [timeRemaining  |-> IF config.timeLimit # 0 THEN config.timeLimit
                                ELSE config.baseTime,
             livesRemaining |-> config.lives,
             hintsRemaining |-> config.hints,
             currentLevel   |-> 1,
             levelProgress  |-> 0,
             levelErrors    |-> 0,
             totalSolved    |-> 0,
             comboCount     |-> 0,
             modeTimer      |-> null,
             isActive       |-> FALSE],
                  !.over = FALSE]

\* A mode change that stops the timer before it asks for the confirmation.
setGameMode_gm_stopFirst(s, mode, confirmed) ==
    IF mode \notin GAME_MODES THEN s
    ELSE IF s.modeState.isActive /\ ~confirmed THEN stopModeTimer_gm(s)
    ELSE LET s1 == IF s.modeState.isActive THEN resetGame(stopModeTimer_gm(s)) ELSE s
         IN  resetModeState_gm([s1 EXCEPT !.currentGameMode = mode])

\* mode: an identifier of GAME_MODES or any other string
setGameMode_gm(s, mode, confirmed) ==
    IF mode \notin GAME_MODES THEN s
    ELSE IF s.modeState.isActive /\ ~confirmed THEN s
    ELSE LET s1 == IF s.modeState.isActive THEN resetGame(stopModeTimer_gm(s)) ELSE s
         IN  resetModeState_gm([s1 EXCEPT !.currentGameMode = mode])

\* setInterval returns a handle no live timer has
newTimer(s) ==
    CHOOSE id \in 1..(Cardinality(s.timers) + 1) : \A tm \in s.timers : tm.id # id

startModeTimer_gm(s) ==
    LET config == MODE_CONFIGS_gm[s.currentGameMode]
    IN  IF ~config.hasTimer THEN s
        ELSE LET s1 == stopModeTimer_gm(s)
                 id == newTimer(s1)
             IN  [s1 EXCEPT !.timers                   =
                                @ \cup {[id |-> id, speedrun |-> config.isSpeedrun]},
                            !.modeState.isActive       = TRUE,
                            !.modeState.modeTimer      = id,
                            !.modeState.timeRemaining  =
                                IF config.isSpeedrun THEN 0 ELSE @]

\* A countdown whose callback never calls handleTimeUp.
timerTick_gm_noTimeUp(s, speedrun) ==
    IF speedrun THEN [s EXCEPT !.modeState.timeRemaining = @ + 1]
    ELSE [s EXCEPT !.modeState.timeRemaining = max(0, @ - 1)]

\* The callback of the interval started by startModeTimer, which read the
\* mode's configuration when it was started.
timerTick_gm(s, speedrun) ==
    IF speedrun THEN [s EXCEPT !.modeState.timeRemaining = @ + 1]
    ELSE LET s1 == [s EXCEPT !.modeState.timeRemaining = @ - 1]
         IN  IF s1.modeState.timeRemaining <= 0
             THEN handleTimeUp_gm([s1 EXCEPT !.modeState.timeRemaining = 0])
             ELSE s1

\* The time penalty of Haste taken without the clamp at 0.
handleIncorrectMove_gm_noClamp(s) ==
    IF s.currentGameMode = REPETITION THEN s
    ELSE IF s.currentGameMode = THREE
    THEN LET s1 == [s EXCEPT !.modeState.livesRemaining = max(0, @ - 1)]
         IN  IF s1.modeState.livesRemaining <= 0 THEN endGameSession_gm(s1) ELSE s1
    ELSE IF s.currentGameMode = HASTE
    THEN LET s1 == [s EXCEPT !.modeState.comboCount    = 0,
                             !.modeState.timeRemaining =
                                 @ - MODE_CONFIGS_gm[HASTE].timeLoss]
         IN  IF s1.modeState.timeRemaining <= 0 THEN handleTimeUp_gm(s1) ELSE s1
    ELSE s

handleIncorrectMove_gm(s) ==
    IF s.currentGameMode = REPETITION THEN s
    ELSE IF s.currentGameMode = THREE
    THEN LET s1 == [s EXCEPT !.modeState.livesRemaining = max(0, @ - 1)]
         IN  IF s1.modeState.livesRemaining <= 0 THEN endGameSession_gm(s1) ELSE s1
    ELSE IF s.currentGameMode = HASTE
    THEN LET s1 == [s EXCEPT !.modeState.comboCount    = 0,
                             !.modeState.timeRemaining =
                                 max(0, @ - MODE_CONFIGS_gm[HASTE].timeLoss)]
         IN  IF s1.modeState.timeRemaining <= 0 THEN handleTimeUp_gm(s1) ELSE s1
    ELSE s

handleHintUsed_gm(s) ==
    IF ~MODE_CONFIGS_gm[s.currentGameMode].hasHints THEN s
    ELSE [s EXCEPT !.modeState.hintsRemaining = max(0, @ - 1)]

\* The gain of the first threshold the streak matches, 0 if none: the
\* loop over comboThresholds with its break.
comboGain_reached(count) ==
    LET hits == {k \in 1..Len(comboThresholds) : count >= comboThresholds[k].at}
    IN  IF hits = {} THEN 0
        ELSE comboThresholds[CHOOSE k \in hits : \A j \in hits : k <= j].gain

comboGain(count) ==
    LET hits == {k \in 1..Len(comboThresholds) : count = comboThresholds[k].at}
    IN  IF hits = {} THEN 0
        ELSE comboThresholds[CHOOSE k \in hits : \A j \in hits : k <= j].gain

handlePuzzleComplete_gm(s) ==
    IF s.currentGameMode = REPETITION THEN s
    ELSE LET s1 == [s EXCEPT !.modeState.totalSolved = @ + 1]
         IN  IF s.currentGameMode = HASTE
             THEN [s1 EXCEPT !.modeState.comboCount    = @ + 1,
                             !.modeState.timeRemaining =
                                 @ + comboGain(s1.modeState.comboCount + 1)]
             ELSE s1

shouldContinueToNextPuzzle_gm(s) ==
    IF s.currentGameMode = INFINITY THEN TRUE
    ELSE s.increment + 1 < s.puzzleset

\* checkAndPlayNext on a move that differs from the solution's
wrongMove_gm(s) == [handleIncorrectMove_gm(s) EXCEPT !.error = TRUE]

\* The completion of a puzzle: the completion hook, then the advancement
\* question, then the next puzzle or the end of the set.
puzzleSolved_gm(s) ==
    LET s1 == handlePuzzleComplete_gm(s)
    IN  IF shouldContinueToNextPuzzle_gm(s1)
        THEN loadPuzzle([s1 EXCEPT !.increment = @ + 1])
        ELSE [s1 EXCEPT !.setcomplete = TRUE, !.puzzlecomplete = TRUE]

startTest_gm(s) ==
    IF s.puzzleset = 0 THEN s
    ELSE startModeTimer_gm([s EXCEPT !.setcomplete = FALSE])

\* The globals after page load, initializeGameModes and loadPGNFile of a
\* file with n puzzles.
loadedGlobals_gm(n) ==
    [currentGameMode |-> STANDARD,
     modeState       |-> [timeRemaining |-> 0, livesRemaining |-> 0,
                          hintsRemaining |-> 0, currentLevel |-> 1,
                          levelProgress |-> 0, levelErrors |-> 0,
                          totalSolved |-> 0, comboCount |-> 0,
                          modeTimer |-> null, isActive |-> FALSE],
     puzzleset       |-> n,
     PuzzleOrder     |-> identityOrder(n),
     increment       |-> 0,
     setcomplete     |-> FALSE,
     puzzlecomplete  |-> FALSE,
     loaded          |-> 0,
     error           |-> FALSE,
     timers          |-> {},
     ended           |-> 0,
     over            |-> FALSE]

\* The user picks Haste in the mode selector.
SelectHaste ==
    /\ \E confirmed \in BOOLEAN :
          /\ g' = setGameMode_gm(g, HASTE, confirmed)
          /\ bonus5' = IF g.modeState.isActive /\ ~confirmed THEN bonus5 ELSE 0
    /\ pre' = History
    /\ lastOp' = "setGameMode"
    /\ UNCHANGED <<now, preNow, ret, blockErr, blockDone, reviews>>

\* The user presses Start.
StartTimed ==
    /\ g' = startTest_gm(g)
    /\ pre' = History
    /\ lastOp' = "startTest"
    /\ UNCHANGED <<now, preNow, ret, blockErr, blockDone, reviews, bonus5>>

\* A second passes: the callback of a live interval timer runs.
TimerTick ==
    /\ now < MaxSeconds * 1000
    /\ \E tm \in g.timers :
          /\ g' = timerTick_gm(g, tm.speedrun)
          /\ lastOp' = IF tm.id = g.modeState.modeTimer THEN "timerTick"
                       ELSE "staleTimerTick"
    /\ now' = now + 1000
    /\ pre' = History
    /\ UNCHANGED <<preNow, ret, blockErr, blockDone, reviews, bonus5>>

WrongMoveTimed ==
    /\ canMove
    /\ g' = wrongMove_gm(g)
    /\ pre' = History
    /\ lastOp' = "wrongMove"
    /\ UNCHANGED <<now, preNow, ret, blockErr, blockDone, reviews, bonus5>>

PuzzleSolvedTimed ==
    /\ canMove
    /\ ~g.puzzlecomplete
    /\ g' = puzzleSolved_gm(g)
    /\ pre' = History
    /\ lastOp' = "puzzleSolved"
    /\ ret' = shouldContinueToNextPuzzle_gm(handlePuzzleComplete_gm(g))
    /\ bonus5' = IF g.currentGameMode = HASTE /\ g.modeState.comboCount + 1 = 5
                    /\ g'.modeState.timeRemaining = g.modeState.timeRemaining + 5
                 THEN bonus5 + 1 ELSE bonus5
    /\ UNCHANGED <<now, preNow, blockErr, blockDone, reviews>>

InitHaste ==
    /\ g = loadedGlobals_gm(MaxHastePuzzles)
    /\ now = 0
    /\ pre = [g |-> g, now |-> 0, preNow |-> 0, lastOp |-> "loadPGNFile",
              blockErr |-> FALSE, blockDone |-> 0, bonus5 |-> 0]
    /\ preNow = 0
    /\ lastOp = "loadPGNFile"
    /\ ret = TRUE
    /\ blockErr = FALSE
    /\ blockDone = 0
    /\ reviews = 0
    /\ bonus5 = 0

NextHaste == SelectHaste \/ StartTimed \/ TimerTick \/ WrongMoveTimed \/ PuzzleSolvedTimed

SpecHaste == InitHaste /\ [][NextHaste]_vars

----------------------------------------------------------------------------
(* Haste mode: claims *)

\* The last handler completed a puzzle in Haste mode and the streak became 5.
streakReachedFive ==
    /\ lastOp = "puzzleSolved"
    /\ pre.g.currentGameMode = HASTE
    /\ g.modeState.comboCount = 5

\* C10 as stated: once the +5 s bonus for a streak of 5 was awarded in a
\* session, it is not awarded again when the streak, reset by an incorrect
\* move, reaches 5 again.
C10_BonusOncePerSession ==
    (streakReachedFive /\ pre.bonus5 >= 1) =>
        g.modeState.timeRemaining = pre.g.modeState.timeRemaining

\* C10 (amended): the +5 s bonus for a streak of 5 is awarded once on every
\* completion at which the streak becomes 5, also when an incorrect move
\* reset the streak after an earlier award in the session.
C10_BonusOncePerStreak ==
    streakReachedFive =>
        g.modeState.timeRemaining = pre.g.modeState.timeRemaining + 5

C10_Witness ==
    /\ streakReachedFive
    /\ pre.bonus5 >= 1
    /\ bonus5 = 2
    /\ g.modeState.isActive

----------------------------------------------------------------------------
(* Long Haste sessions: streaks up to the last combo threshold *)

MaxComboPuzzles == 31  \* these sessions run on a set of this many puzzles

\* Haste was picked and Start pressed on a freshly loaded set.
InitCombo ==
    /\ g = startTest_gm(setGameMode_gm(loadedGlobals_gm(MaxComboPuzzles), HASTE, TRUE))
    /\ now = 0
    /\ pre = [g |-> g, now |-> 0, preNow |-> 0, lastOp |-> "startTest",
              blockErr |-> FALSE, blockDone |-> 0, bonus5 |-> 0]
    /\ preNow = 0
    /\ lastOp = "startTest"
    /\ ret = TRUE
    /\ blockErr = FALSE
    /\ blockDone = 0
    /\ reviews = 0
    /\ bonus5 = 0

NextCombo == WrongMoveTimed \/ PuzzleSolvedTimed

SpecCombo == InitCombo /\ [][NextCombo]_vars

\* The last handler completed a puzzle in Haste mode.
hasteCompletion == lastOp = "puzzleSolved" /\ pre.g.currentGameMode = HASTE

\* The documented thresholds: 2:+3s, 5:+5s, 10:+8s, 20:+12s, 30:+15s.
documentedGain(streak) ==
    CASE streak = 2  -> 3
      [] streak = 5  -> 5
      [] streak = 10 -> 8
      [] streak = 20 -> 12
      [] streak = 30 -> 15
      [] OTHER       -> 0

\* C11: in Haste mode every completion increments the streak by exactly 1;
\* time is added only on the completion at which the streak becomes equal
\* to a threshold (2:+3, 5:+5, 10:+8, 20:+12, 30:+15), once; every other
\* completion leaves timeRemaining unchanged.
C11_StreakAndThresholdGain ==
    hasteCompletion =>
        /\ g.modeState.comboCount = pre.g.modeState.comboCount + 1
        /\ g.modeState.timeRemaining =
              pre.g.modeState.timeRemaining + documentedGain(g.modeState.comboCount)

C11_Witness ==
    /\ hasteCompletion
    /\ g.modeState.comboCount = 30
    /\ g.modeState.timeRemaining = pre.g.modeState.timeRemaining + 15
    /\ g.modeState.isActive

----------------------------------------------------------------------------
(* The mode interval timer: startModeTimer, stopModeTimer, setGameMode,     *)
(* resetModeState and the timer's ticks, called in any order                *)

MaxTimers == 2  \* the runs are followed while at most MaxTimers intervals are live

OtherMode == "blitz"  \* an identifier with no entry in MODE_CONFIGS

\* setGameMode reaches its confirm() dialog.
confirmAsked(s, mode) == mode \in GAME_MODES /\ s.modeState.isActive

\* The mode selector changes, or another script calls setGameMode; the
\* user's answer to the dialog, if it is shown, is confirmed.
SetGameMode ==
    /\ \E mode \in GAME_MODES \cup {OtherMode}, confirmed \in BOOLEAN :
          /\ g' = setGameMode_gm(g, mode, confirmed)
          /\ lastOp' = IF confirmAsked(g, mode) /\ ~confirmed
                       THEN "setGameModeDeclined"
                       ELSE IF mode \in GAME_MODES THEN "setGameMode"
                       ELSE "setGameModeUnknown"
    /\ pre' = History
    /\ UNCHANGED <<now, preNow, ret, blockErr, blockDone, reviews, bonus5>>

StartModeTimer ==
    /\ Cardinality(g.timers) < MaxTimers
    /\ g' = startModeTimer_gm(g)
    /\ pre' = History
    /\ lastOp' = "startModeTimer"
    /\ UNCHANGED <<now, preNow, ret, blockErr, blockDone, reviews, bonus5>>

StopModeTimer ==
    /\ g' = stopModeTimer_gm(g)
    /\ pre' = History
    /\ lastOp' = "stopModeTimer"
    /\ UNCHANGED <<now, preNow, ret, blockErr, blockDone, reviews, bonus5>>

\* resetModeState called on its own, as startRepetitionMode does.
ResetModeState ==
    /\ g' = resetModeState_gm(g)
    /\ pre' = History
    /\ lastOp' = "resetModeState"
    /\ UNCHANGED <<now, preNow, ret, blockErr, blockDone, reviews, bonus5>>

InitTimer ==
    /\ g = loadedGlobals_gm(MaxHastePuzzles)
    /\ now = 0
    /\ pre = [g |-> g, now |-> 0, preNow |-> 0, lastOp |-> "loadPGNFile",
              blockErr |-> FALSE, blockDone |-> 0, bonus5 |-> 0]
    /\ preNow = 0
    /\ lastOp = "loadPGNFile"
    /\ ret = TRUE
    /\ blockErr = FALSE
    /\ blockDone = 0
    /\ reviews = 0
    /\ bonus5 = 0

NextTimer == SetGameMode \/ StartModeTimer \/ StopModeTimer \/ ResetModeState \/ TimerTick

SpecTimer == InitTimer /\ [][NextTimer]_vars

\* C12: after any sequence of startModeTimer, stopModeTimer, setGameMode,
\* resetModeState and timer ticks at most one mode interval timer is live,
\* and no tick of a timer started before a reset or mode change (a timer
\* whose handle modeState does not hold) modifies the Mode Runtime State.
C12_OneLiveTimerNoStaleTick ==
    /\ Cardinality(g.timers) <= 1
    /\ lastOp = "staleTimerTick" => g.modeState = pre.g.modeState

----------------------------------------------------------------------------
(* The board of part_008: move gestures and the delayed correctness check  *)

MaxMoves        == 3  \* a puzzle's solution has this many moves
MaxBoardPuzzles == 2  \* the board sessions run on a set of this many puzzles
MaxPending      == 2  \* gestures are taken while fewer checks than this are pending
MaxErrors       == 2  \* gestures are taken while errorcount is below this

\* The solution of a puzzle: move k of the line is written k; any other
\* legal move is written OtherMove.
OtherMove == 0

moveHistory == [k \in 1..MaxMoves |-> k]

\* game.history() follows the solution's line.
onLine(history) == \A k \in 1..Len(history) : k <= MaxMoves /\ history[k] = moveHistory[k]

\* The moves game.move accepts in the position: the line's next move while
\* the game is on the line, and the other moves of the side to move.
legalMoves(s) ==
    {OtherMove} \cup (IF onLine(s.history) /\ Len(s.history) < MaxMoves
                      THEN {moveHistory[Len(s.history) + 1]} ELSE {})

\* makeMove: 'snapback' is written Undefined
makeMove(s, move) == IF move \in legalMoves(s) THEN move ELSE Undefined

\* setTimeout(checkAndPlayNext, 100); the entry remembers which move of the
\* game scheduled it and the history before that move
schedule(s, move) ==
    [s EXCEPT !.history = Append(@, move),
              !.pending = Append(@, [n |-> Len(s.history) + 1, move |-> move,
                                     before |-> s.history])]

loadPuzzle_board(s) ==
    [s EXCEPT !.history = <<>>, !.puzzlecomplete = FALSE, !.error = FALSE]

\* A nextPuzzle that advances on the last puzzle too.
nextPuzzle_noEnd(s) ==
    loadPuzzle_board([s EXCEPT !.increment = @ + 1, !.completions = @ + 1])

\* completions counts the calls
nextPuzzle(s) ==
    IF s.increment < s.puzzleset - 1
    THEN loadPuzzle_board([s EXCEPT !.increment = @ + 1, !.completions = @ + 1])
    ELSE [s EXCEPT !.setcomplete = TRUE, !.completions = @ + 1]

dragStart(s) == ~s.setcomplete

\* A drop that schedules the check also when the move snapped back.
dropPiece_checkAlways(s, move) ==
    IF makeMove(s, move) = Undefined
    THEN [s EXCEPT !.pending = Append(@, [n |-> Len(s.history), move |-> move,
                                          before |-> s.history])]
    ELSE schedule(s, move)

dropPiece(s, move) ==
    IF makeMove(s, move) = Undefined THEN s ELSE schedule(s, move)

\* own: the clicked square holds a piece of the side to move; same: it is
\* the selected square; move: the move from the selected square to it
onSquareClick(s, own, same, move) ==
    IF ~s.sourceSquare
    THEN [s EXCEPT !.sourceSquare = own]
    ELSE IF same THEN [s EXCEPT !.sourceSquare = FALSE]
    ELSE IF makeMove(s, move) # Undefined
         THEN [schedule(s, move) EXCEPT !.sourceSquare = FALSE]
         ELSE [s EXCEPT !.sourceSquare = own]

\* history[length - 1] === moveHistory[length - 1]; both are undefined, and
\* equal, on an empty history
lastMoveMatches(s) ==
    LET len == Len(s.history)
    IN  len = 0 \/ (len <= MaxMoves /\ s.history[len] = moveHistory[len])

checkAndPlayNext(s) ==
    LET s0 == [s EXCEPT !.pending = Tail(@)]
    IN  IF lastMoveMatches(s0)
        THEN LET s1 == IF ~s0.playbothsides /\ Len(s0.history) < MaxMoves
                       THEN [s0 EXCEPT !.history = Append(@, moveHistory[Len(@) + 1])]
                       ELSE s0
             IN  IF Len(s1.history) = MaxMoves
                 THEN nextPuzzle([s1 EXCEPT !.puzzlecomplete = TRUE])
                 ELSE s1
        ELSE [s0 EXCEPT !.errorcount = @ + 1,
                        !.error      = TRUE,
                        !.history    = SubSeq(@, 1, Len(@) - 1)]

\* The globals after loadPGNFile of MaxBoardPuzzles puzzles and Start.
boardGlobals(playbothsides) ==
    [history |-> <<>>, pending |-> <<>>, sourceSquare |-> FALSE,
     puzzleset |-> MaxBoardPuzzles, increment |-> 0,
     setcomplete |-> FALSE, puzzlecomplete |-> FALSE,
     error |-> FALSE, errorcount |-> 0, playbothsides |-> playbothsides,
     completions |-> 0]

gestureTaken == Len(g.pending) < MaxPending /\ g.errorcount + Len(g.pending) < MaxErrors

DropPiece ==
    /\ gestureTaken
    /\ dragStart(g)
    /\ \E move \in legalMoves(g) \cup {Undefined} :
          /\ g' = dropPiece(g, move)
          /\ lastOp' = IF move \in legalMoves(g) THEN "dropPiece"
                       ELSE "dropPieceIllegal"
    /\ pre' = History
    /\ UNCHANGED <<now, preNow, ret, blockErr, blockDone, reviews, bonus5>>

SquareClick ==
    /\ gestureTaken
    /\ \E own, same \in BOOLEAN, move \in legalMoves(g) \cup {Undefined} :
          /\ g' = onSquareClick(g, own, same, move)
          /\ lastOp' = IF g.sourceSquare /\ ~same /\ move \notin legalMoves(g)
                       THEN "onSquareClickIllegal"
                       ELSE "onSquareClick"
    /\ pre' = History
    /\ UNCHANGED <<now, preNow, ret, blockErr, blockDone, reviews, bonus5>>

\* The oldest pending timeout fires.
CheckAndPlayNext ==
    /\ g.pending # <<>>
    /\ g' = checkAndPlayNext(g)
    /\ pre' = History
    /\ lastOp' = "checkAndPlayNext"
    /\ UNCHANGED <<now, preNow, ret, blockErr, blockDone, reviews, bonus5>>

InitBoard ==
    /\ \E playbothsides \in BOOLEAN : g = boardGlobals(playbothsides)
    /\ now = 0
    /\ pre = [g |-> g, now |-> 0, preNow |-> 0, lastOp |-> "startTest",
              blockErr |-> FALSE, blockDone |-> 0, bonus5 |-> 0]
    /\ preNow = 0
    /\ lastOp = "startTest"
    /\ ret = TRUE
    /\ blockErr = FALSE
    /\ blockDone = 0
    /\ reviews = 0
    /\ bonus5 = 0

NextBoard == DropPiece \/ SquareClick \/ CheckAndPlayNext

SpecBoard == InitBoard /\ [][NextBoard]_vars

\* C13: between a legal move applied by dropPiece or a square click and its
\* delayed checkAndPlayNext no second move is applied to the game (at most
\* one check is pending), and each checkAndPlayNext compares exactly the
\* move that scheduled it: that move is the last of the game's history
\* when the callback runs.
C13_CheckBeforeNextMove ==
    /\ Len(g.pending) <= 1
    /\ lastOp = "checkAndPlayNext" =>
          LET check == pre.g.pending[1]
          IN  /\ Len(pre.g.history) = check.n
              /\ pre.g.history[check.n] = check.move

----------------------------------------------------------------------------
(* Sessions of every mode of assets/game-modes.js: mode changes, Start,    *)
(* ticks, moves, hints and completions                                     *)

MaxSessionPuzzles == 2  \* these sessions run on a set of this many puzzles

\* The user presses Hint.
HintUsedTimed ==
    /\ g' = handleHintUsed_gm(g)
    /\ pre' = History
    /\ lastOp' = "handleHintUsed"
    /\ UNCHANGED <<now, preNow, ret, blockErr, blockDone, reviews, bonus5>>

InitSession ==
    /\ g = loadedGlobals_gm(MaxSessionPuzzles)
    /\ now = 0
    /\ pre = [g |-> g, now |-> 0, preNow |-> 0, lastOp |-> "loadPGNFile",
              blockErr |-> FALSE, blockDone |-> 0, bonus5 |-> 0]
    /\ preNow = 0
    /\ lastOp = "loadPGNFile"
    /\ ret = TRUE
    /\ blockErr = FALSE
    /\ blockDone = 0
    /\ reviews = 0
    /\ bonus5 = 0

NextSession ==
    \/ SetGameMode
    \/ StartTimed
    \/ TimerTick
    \/ WrongMoveTimed
    \/ PuzzleSolvedTimed
    \/ HintUsedTimed

SpecSession == InitSession /\ [][NextSession]_vars

\* The last handler was an incorrect-move, hint or puzzle-complete event.
puzzleEvent == lastOp \in {"wrongMove", "handleHintUsed", "puzzleSolved"}

\* C14: after endGameSession (time up or lives exhausted) no later
\* incorrect-move, hint or puzzle-complete event changes any field of the
\* Mode Runtime State until the state is reset.
C14_EndedStateFrozen ==
    (puzzleEvent /\ pre.g.over) => g.modeState = pre.g.modeState

----------------------------------------------------------------------------
(* Countdown and Three sessions followed from Start to their end *)

\* A second passes in a session followed to its end: the callback of a live
\* interval timer runs (the clock reading plays no part in these sessions).
TimerTickToEnd ==
    /\ \E tm \in g.timers :
          /\ g' = timerTick_gm(g, tm.speedrun)
          /\ lastOp' = IF tm.id = g.modeState.modeTimer THEN "timerTick"
                       ELSE "staleTimerTick"
    /\ pre' = History
    /\ UNCHANGED <<now, preNow, ret, blockErr, blockDone, reviews, bonus5>>

\* Countdown or Three was picked and Start pressed on a freshly loaded set;
\* Start hides the Start buttons.
InitCountdown ==
    /\ \E mode \in {COUNTDOWN, THREE} :
          g = startTest_gm(setGameMode_gm(loadedGlobals_gm(MaxSessionPuzzles), mode, TRUE))
    /\ now = 0
    /\ pre = [g |-> g, now |-> 0, preNow |-> 0, lastOp |-> "startTest",
              blockErr |-> FALSE, blockDone |-> 0, bonus5 |-> 0]
    /\ preNow = 0
    /\ lastOp = "startTest"
    /\ ret = TRUE
    /\ blockErr = FALSE
    /\ blockDone = 0
    /\ reviews = 0
    /\ bonus5 = 0

NextCountdown ==
    \/ TimerTickToEnd
    \/ WrongMoveTimed
    \/ PuzzleSolvedTimed
    \/ HintUsedTimed

\* setInterval runs the callback every second while the timer is live.
SpecCountdown ==
    InitCountdown /\ [][NextCountdown]_vars /\ WF_vars(TimerTickToEnd)

timerStopped == g.timers = {} /\ g.modeState.modeTimer = null /\ ~g.modeState.isActive

endedByTimeUp == g.over /\ timerStopped /\ g.modeState.timeRemaining = 0

endedByLives ==
    /\ g.over
    /\ timerStopped
    /\ g.currentGameMode = THREE
    /\ g.modeState.livesRemaining = 0

\* C15 as stated: in Countdown and Three modes, once the timer was started
\* and its ticks keep firing, the session eventually ends through
\* handleTimeUp with timeRemaining equal to 0.
C15_EndsByTimeUp == <>endedByTimeUp

\* C15 (amended): the session eventually ends, through handleTimeUp with
\* timeRemaining 0 or, in Three mode, through the loss of the last life,
\* and the ended state is terminal: from then on the timer stays stopped,
\* so no tick changes timeRemaining.
C15_EndsAndStaysEnded == <>[](endedByTimeUp \/ endedByLives)

C15_Witness ==
    /\ lastOp = "timerTick"
    /\ pre.g.modeState.timeRemaining = 1
    /\ pre.g.modeState.isActive
    /\ endedByTimeUp

----------------------------------------------------------------------------
(* Three and Haste modes: incorrect moves *)

\* The last handler was an incorrect move in the given mode.
incorrectMoveIn(mode) == lastOp = "wrongMove" /\ pre.g.currentGameMode = mode

\* C16: in Three mode every incorrect move decreases livesRemaining by
\* exactly 1, never below 0, and the session is ended exactly when
\* livesRemaining reaches 0 and not before.
C16_EachErrorCostsOneLife ==
    incorrectMoveIn(THREE) =>
        /\ g.modeState.livesRemaining = pre.g.modeState.livesRemaining - 1
        /\ g.modeState.livesRemaining >= 0
        /\ ~pre.g.over => (g.over <=> g.modeState.livesRemaining = 0)

\* The handler ended the session: the timer is stopped and the end recorded.
sessionEndedNow == g.over /\ timerStopped

\* The handler left the timer and the end of the session as they were.
sessionLeftAsItWas ==
    /\ g.over = pre.g.over
    /\ g.timers = pre.g.timers
    /\ g.modeState.modeTimer = pre.g.modeState.modeTimer
    /\ g.modeState.isActive = pre.g.modeState.isActive

\* C17: in Haste mode every incorrect move subtracts the fixed time penalty
\* from timeRemaining, clamped at 0, and ends the session through
\* handleTimeUp exactly when the result is 0; timeRemaining is never
\* negative under any interleaving of ticks, incorrect moves and bonuses.
C17_PenaltyClampedNeverNegative ==
    /\ g.modeState.timeRemaining >= 0
    /\ incorrectMoveIn(HASTE) =>
          /\ g.modeState.timeRemaining =
                max(0, pre.g.modeState.timeRemaining - MODE_CONFIGS_gm[HASTE].timeLoss)
          /\ IF g.modeState.timeRemaining = 0 THEN sessionEndedNow
             ELSE sessionLeftAsItWas

C17_Witness ==
    /\ incorrectMoveIn(HASTE)
    /\ pre.g.modeState.isActive
    /\ pre.g.modeState.timeRemaining = 29
    /\ g.modeState.timeRemaining = 0
    /\ sessionEndedNow

----------------------------------------------------------------------------
(* Mode changes *)

\* setGameMode was called right after Start on a loaded set.
modeChangeInSession ==
    /\ lastOp = "setGameMode"
    /\ pre.lastOp = "startTest"
    /\ pre.g.puzzleset > 0

\* C18: when setGameMode is called while a session is in progress (puzzles
\* loaded and started), in any mode including those without a timer, the
\* mode changes only after a confirmation, and the accepted change leaves
\* the Mode Runtime State equal to the fresh initial state of the new mode,
\* no timer running and the puzzle session reset.
C18_ModeChangeResetsSession ==
    (modeChangeInSession /\ g.currentGameMode # pre.g.currentGameMode) =>
        /\ g.modeState = resetModeState_gm(g).modeState
        /\ g.timers = {}
        /\ g.puzzleset = 0
        /\ g.increment = 0
        /\ g.PuzzleOrder = <<>>

\* C19: if the user declines the confirmation in setGameMode, then
\* currentGameMode, every field of the Mode Runtime State (timeRemaining
\* and isActive included) and the running mode timer are exactly as
\* before the call.
C19_DeclinedChangesNothing ==
    lastOp = "setGameModeDeclined" =>
        /\ g.currentGameMode = pre.g.currentGameMode
        /\ g.modeState = pre.g.modeState
        /\ g.timers = pre.g.timers
        /\ g = pre.g

C19_Witness ==
    /\ lastOp = "setGameModeDeclined"
    /\ g.modeState.isActive
    /\ g.modeState.timeRemaining > 0
    /\ \E tm \in g.timers : tm.id = g.modeState.modeTimer

----------------------------------------------------------------------------
(* Mode changes of part_004 *)

\* The mode selector changes, or another script calls setGameMode.
SetGameMode_p4 ==
    /\ \E mode \in GAME_MODES \cup {OtherMode}, confirmed \in BOOLEAN :
          /\ g' = setGameMode(g, mode, confirmed)
          /\ lastOp' = IF mode \notin GAME_MODES
                       THEN IF setGameModeThrows(g, mode, confirmed)
                            THEN "setGameModeUnknownThrew"
                            ELSE "setGameModeUnknown"
                       ELSE IF g.modeState.isActive /\ ~confirmed
                            THEN "setGameModeDeclined"
                            ELSE "setGameMode"
    /\ pre' = History
    /\ UNCHANGED <<now, preNow, ret, blockErr, blockDone, reviews, bonus5>>

\* startTest of part_008 calls startModeTimer.
StartModeTimer_p4 ==
    /\ g.puzzleset > 0
    /\ g' = startModeTimer([g EXCEPT !.setcomplete = FALSE])
    /\ pre' = History
    /\ lastOp' = "startTest"
    /\ UNCHANGED <<now, preNow, ret, blockErr, blockDone, reviews, bonus5>>

InitModeSwitch ==
    /\ \E n \in 1..MaxPuzzles : g = loadedGlobals(n, puzzlesPerLevelDefault)
    /\ now = 0
    /\ pre = [g |-> g, now |-> 0, preNow |-> 0, lastOp |-> "loadPGNFile",
              blockErr |-> FALSE, blockDone |-> 0, bonus5 |-> 0]
    /\ preNow = 0
    /\ lastOp = "loadPGNFile"
    /\ ret = TRUE
    /\ blockErr = FALSE
    /\ blockDone = 0
    /\ reviews = 0
    /\ bonus5 = 0

NextModeSwitch == SetGameMode_p4 \/ StartModeTimer_p4

SpecModeSwitch == InitModeSwitch /\ [][NextModeSwitch]_vars

\* C20: setGameMode called with an identifier that has no Mode Definition
\* changes neither currentGameMode nor the Mode Runtime State and raises
\* no error.
C20_UnknownModeIgnored ==
    lastOp \in {"setGameModeUnknown", "setGameModeUnknownThrew"} =>
        /\ lastOp # "setGameModeUnknownThrew"
        /\ g.currentGameMode = pre.g.currentGameMode
        /\ g.modeState = pre.g.modeState

----------------------------------------------------------------------------
(* Level-gated mode inside a block *)

\* The last handler completed, in Repetition mode, a puzzle that is not the
\* N-th of its block.
midBlockCompletion ==
    /\ lastOp = "puzzleSolved"
    /\ pre.g.currentGameMode = REPETITION
    /\ (pre.g.increment - pre.g.repetitionSetStartIndex) + 1 < pre.g.puzzlesPerLevel

\* C21: in level-gated mode, while fewer than N puzzles of the block were
\* completed, an incorrect move never ends the session, never moves the
\* cursor and never triggers a restart (handleIncorrectMove only records
\* the error), and at each puzzle completion shouldContinueToNextPuzzle
\* answers advance with the cursor moving forward by exactly one.
C21_MidBlockAlwaysAdvances ==
    /\ (lastOp = "wrongMove" /\ pre.g.currentGameMode = REPETITION) =>
          g = [pre.g EXCEPT !.repetitionSetHadError = TRUE, !.error = TRUE]
    /\ midBlockCompletion =>
          /\ ret = TRUE
          /\ g.increment = pre.g.increment + 1
          /\ g.repetitionSetStartIndex = pre.g.repetitionSetStartIndex
          /\ g.modeState.currentLevel = pre.g.modeState.currentLevel
          /\ g.ended = pre.g.ended

\* An incorrect move was made on the puzzle, which then completed mid-block.
C21_Witness ==
    /\ midBlockCompletion
    /\ pre.g.repetitionSetHadError
    /\ pre.lastOp = "wrongMove"
    /\ g.increment = pre.g.increment + 1
    /\ g.increment < g.puzzleset

----------------------------------------------------------------------------
(* The board of part_008: wrong and illegal moves *)

\* The timeout that just ran was scheduled by a legal move that is not the
\* solution's move at its place.
wrongMoveChecked ==
    /\ lastOp = "checkAndPlayNext"
    /\ LET check == pre.g.pending[1]
       IN  check.n > MaxMoves \/ check.move # moveHistory[check.n]

\* C22: a legal move that differs from the expected solution move increments
\* errorcount by exactly 1, sets the per-puzzle error flag and is undone:
\* after its checkAndPlayNext the game's history equals the history before
\* the attempt.
C22_WrongMoveCountedAndUndone ==
    wrongMoveChecked =>
        /\ g.errorcount = pre.g.errorcount + 1
        /\ g.error
        /\ g.history = pre.g.pending[1].before

\* C23: an illegal move attempt (rejected by the rules engine) leaves the
\* game position, errorcount, the per-puzzle error flag and every other
\* global unchanged and schedules no checkAndPlayNext, so that
\* handleIncorrectMove is not called; a rejected click changes the
\* selection only.
C23_IllegalMoveChangesNothing ==
    /\ lastOp = "dropPieceIllegal" => g = pre.g
    /\ lastOp = "onSquareClickIllegal" =>
          [g EXCEPT !.sourceSquare = pre.g.sourceSquare] = pre.g

C23_Witness ==
    /\ lastOp = "dropPieceIllegal"
    /\ g.history # <<>>
    /\ g.pending # <<>>
    /\ g.increment = 1

----------------------------------------------------------------------------
(* The board of part_008: advancing through the set *)

\* The timeout that just ran found the puzzle complete and called nextPuzzle.
completionChecked ==
    lastOp = "checkAndPlayNext" /\ g.completions = pre.g.completions + 1

\* C24: in standard mode nextPuzzle moves the cursor forward by exactly one
\* while a later puzzle exists and, called on the last puzzle, marks the set
\* complete without moving the cursor; the cursor moves at no other time, so
\* the set becomes complete after exactly puzzle-count completions, the
\* cursor having stood once on every entry of Puzzle Order.
C24_CursorAdvancesToSetComplete ==
    /\ g.increment >= 0 /\ g.increment < g.puzzleset
    /\ completionChecked =>
          IF pre.g.increment < pre.g.puzzleset - 1
          THEN g.increment = pre.g.increment + 1 /\ g.setcomplete = pre.g.setcomplete
          ELSE g.increment = pre.g.increment /\ g.setcomplete
    /\ ~completionChecked => g.increment = pre.g.increment
                             /\ g.setcomplete = pre.g.setcomplete
    /\ (g.setcomplete /\ ~pre.g.setcomplete) =>
          /\ g.completions = g.puzzleset
          /\ g.increment = g.puzzleset - 1

C24_Witness ==
    /\ completionChecked
    /\ g.setcomplete
    /\ ~pre.g.setcomplete
    /\ g.completions = MaxBoardPuzzles

----------------------------------------------------------------------------
(* Puzzle Order: loadPGNFile (part_008), the rebuilding queue of part_004   *)
(* and the re-inserting queue of part_005                                   *)

MaxQueuePuzzles == 5   \* files of 1..MaxQueuePuzzles puzzles
MaxStoredCards == 2    \* puzzles 0..MaxStoredCards-1 may have a stored card
MaxQueueDays == 1      \* stored cards are 0..MaxQueueDays days old
MaxQueueReviews == 3   \* completions followed in one run

SR_REINSERT_AFTER == 4

\* shuffle can return every arrangement of the array it is given.
shuffle(n) ==
    {o \in [1..n -> 0..(n - 1)] : \A j, k \in 1..n : o[j] = o[k] => j = k}

loadPGNFile(s, order) ==
    [s EXCEPT !.puzzleset = s.fileSize, !.PuzzleOrder = order, !.increment = 0]

\* part_005 keeps the build of part_004 under another name.
srBuildInitialQueue(cards, totalPuzzles, t) == srBuildQueue(cards, totalPuzzles, t)

\* srQueue and PuzzleOrder are one array: every write of srQueue is
\* followed by PuzzleOrder = srQueue, and splice changes it in place.
srInitSession_p5(s, t) ==
    LET s1 == srLoadCards([s EXCEPT !.srCurrentPgnFile        = pgnFileKey,
                                    !.srCurrentPuzzleHadError = FALSE,
                                    !.srPendingRetry          = {}])
    IN  [s1 EXCEPT !.PuzzleOrder = srBuildInitialQueue(s1.srCards, s1.puzzleset, t),
                   !.increment   = 0]

\* srQueue.splice(insertAt, 0, puzzleIndex), insertAt counted from 0
splice(queue, insertAt, puzzleIndex) ==
    SubSeq(queue, 1, insertAt) \o <<puzzleIndex>> \o SubSeq(queue, insertAt + 1, Len(queue))

\* A failed attempt that is scored at once, as part_004 scores it.
srOnPuzzleComplete_p5_scoreFailure(s, t) ==
    LET puzzleIndex == s.PuzzleOrder[s.increment + 1]
        wasInRetry  == puzzleIndex \in s.srPendingRetry
        s1          == srGetCard(s, puzzleIndex, t)
    IN  IF s.srCurrentPuzzleHadError
        THEN LET s2 == srSaveCards([s1 EXCEPT !.srCards[puzzleIndex] = srApplySM2(@, 1, t)])
                 insertAt == min(s.increment + SR_REINSERT_AFTER, Len(s.PuzzleOrder))
             IN  [s2 EXCEPT !.srPendingRetry = @ \cup {puzzleIndex},
                            !.PuzzleOrder = splice(@, insertAt, puzzleIndex),
                            !.srCurrentPuzzleHadError = FALSE]
        ELSE LET quality == IF wasInRetry THEN 1 ELSE 4
                 s2 == [s1 EXCEPT !.srCards[puzzleIndex] = srApplySM2(@, quality, t)]
             IN  [srSaveCards(s2) EXCEPT !.srPendingRetry = @ \ {puzzleIndex},
                                         !.srCurrentPuzzleHadError = FALSE]

\* A splice that writes over the entry at insertAt.
srOnPuzzleComplete_p5_overwrite(s, t) ==
    LET puzzleIndex == s.PuzzleOrder[s.increment + 1]
        wasInRetry  == puzzleIndex \in s.srPendingRetry
        s1          == srGetCard(s, puzzleIndex, t)
    IN  IF s.srCurrentPuzzleHadError
        THEN LET s2 == srSaveCards([s1 EXCEPT !.srCards[puzzleIndex].nextReview = t - 1,
                                              !.srCards[puzzleIndex].due = TRUE])
                 insertAt == min(s.increment + SR_REINSERT_AFTER, Len(s.PuzzleOrder))
             IN  [s2 EXCEPT !.srPendingRetry = @ \cup {puzzleIndex},
                            !.PuzzleOrder = SubSeq(@, 1, insertAt) \o <<puzzleIndex>>
                                            \o SubSeq(@, insertAt + 2, Len(@)),
                            !.srCurrentPuzzleHadError = FALSE]
        ELSE LET quality == IF wasInRetry THEN 1 ELSE 4
                 s2 == [s1 EXCEPT !.srCards[puzzleIndex] = srApplySM2(@, quality, t)]
             IN  [srSaveCards(s2) EXCEPT !.srPendingRetry = @ \ {puzzleIndex},
                                         !.srCurrentPuzzleHadError = FALSE]

srOnPuzzleComplete_p5(s, t) ==
    LET puzzleIndex == s.PuzzleOrder[s.increment + 1]
        wasInRetry  == puzzleIndex \in s.srPendingRetry
        s1          == srGetCard(s, puzzleIndex, t)
    IN  IF s.srCurrentPuzzleHadError
        THEN LET s2 == srSaveCards([s1 EXCEPT !.srCards[puzzleIndex].nextReview = t - 1,
                                              !.srCards[puzzleIndex].due = TRUE])
                 insertAt == min(s.increment + SR_REINSERT_AFTER, Len(s.PuzzleOrder))
             IN  [s2 EXCEPT !.srPendingRetry = @ \cup {puzzleIndex},
                            !.PuzzleOrder = splice(@, insertAt, puzzleIndex),
                            !.srCurrentPuzzleHadError = FALSE]
        ELSE LET quality == IF wasInRetry THEN 1 ELSE 4
                 s2 == [s1 EXCEPT !.srCards[puzzleIndex] = srApplySM2(@, quality, t)]
             IN  [srSaveCards(s2) EXCEPT !.srPendingRetry = @ \ {puzzleIndex},
                                         !.srCurrentPuzzleHadError = FALSE]

srAdvance_p5_setLength(s, t) ==
    IF s.increment + 1 >= s.puzzleset
    THEN [s EXCEPT !.PuzzleOrder = srBuildInitialQueue(s.srCards, s.puzzleset, t),
                   !.increment   = -1]
    ELSE s

srAdvance_p5(s, t) ==
    IF s.increment + 1 >= Len(s.PuzzleOrder)
    THEN [s EXCEPT !.PuzzleOrder = srBuildInitialQueue(s.srCards, s.puzzleset, t),
                   !.increment   = -1]
    ELSE s

\* onStartTest of the loaded mode script
onStartTest_queue(s, t) ==
    IF s.currentGameMode # INFINITY THEN s
    ELSE IF s.variant = "part_005" THEN srInitSession_p5(s, t)
    ELSE srInitSession(s, t)

\* handlePuzzleComplete, shouldContinueToNextPuzzle, then the caller's
\* increment += 1; the loaded puzzle starts without an error.
puzzleSolved_queue(s, t) ==
    IF s.currentGameMode # INFINITY
    THEN IF s.increment + 1 < s.puzzleset
         THEN [s EXCEPT !.increment = @ + 1]
         ELSE [s EXCEPT !.setcomplete = TRUE]
    ELSE LET s1 == IF s.variant = "part_005"
                   THEN srAdvance_p5(srOnPuzzleComplete_p5(s, t), t)
                   ELSE srAdvance(srOnPuzzleComplete(s, t), t)
         IN  srOnPuzzleStart([s1 EXCEPT !.increment = @ + 1])

\* The globals after page load: nothing is loaded; the file in #openPGN has
\* fileSize puzzles and storage holds the cards of earlier sessions.
queueGlobals(variant, mode, n, stored) ==
    [variant                 |-> variant,
     currentGameMode         |-> mode,
     fileSize                |-> n,
     puzzleset               |-> 0,
     PuzzleOrder             |-> << >>,
     increment               |-> 0,
     setcomplete             |-> FALSE,
     started                 |-> FALSE,
     srCards                 |-> << >>,
     srCurrentPgnFile        |-> "",
     srCurrentPuzzleHadError |-> FALSE,
     srPendingRetry          |-> {},
     localStorage            |-> stored]

QueueHistories ==
    [kind : {"none"}, day : {0}] \cup [kind : {"failed", "clean"}, day : 0..MaxQueueDays]

\* One file is loaded in a run.
LoadPGNFile ==
    /\ g.puzzleset = 0
    /\ \E randomizeSet \in BOOLEAN :
          \E order \in (IF randomizeSet THEN shuffle(g.fileSize)
                        ELSE {identityOrder(g.fileSize)}) :
              g' = [loadPGNFile(g, order) EXCEPT !.started = FALSE, !.setcomplete = FALSE]
    /\ ~g.started
    /\ pre' = History
    /\ lastOp' = "loadPGNFile"
    /\ UNCHANGED <<now, preNow, ret, blockErr, blockDone, reviews, bonus5>>

StartTestQueue ==
    /\ g.puzzleset > 0
    /\ ~g.started
    /\ g' = [onStartTest_queue(g, now) EXCEPT !.started = TRUE, !.setcomplete = FALSE]
    /\ pre' = History
    /\ lastOp' = "startTest"
    /\ UNCHANGED <<now, preNow, ret, blockErr, blockDone, reviews, bonus5>>

WrongMoveQueue ==
    /\ g.started /\ ~g.setcomplete
    /\ g.currentGameMode = INFINITY
    /\ g' = srOnError(g)
    /\ pre' = History
    /\ lastOp' = "wrongMove"
    /\ UNCHANGED <<now, preNow, ret, blockErr, blockDone, reviews, bonus5>>

\* The card of the current puzzle stays within MaxInterval.
withinQueueCap(s) ==
    LET i == s.PuzzleOrder[s.increment + 1]
    IN  (s.currentGameMode = INFINITY /\ hasCard(s.srCards, i)
         /\ s.srCards[i].repetitions >= 2) =>
            s.srCards[i].interval * s.srCards[i].easeFactor <= MaxInterval * 100 + 49

PuzzleSolvedQueue ==
    /\ g.started /\ ~g.setcomplete
    /\ reviews < MaxQueueReviews
    /\ withinQueueCap(g)
    /\ g' = puzzleSolved_queue(g, now)
    /\ reviews' = reviews + 1
    /\ pre' = History
    /\ lastOp' = "puzzleSolved"
    /\ UNCHANGED <<now, preNow, ret, blockErr, blockDone, bonus5>>

InitQueue ==
    /\ \E n \in 1..MaxQueuePuzzles :
          \E hist \in [0..(n - 1) -> QueueHistories] :
             \E variant \in {"part_004", "part_005"}, mode \in {STANDARD, INFINITY} :
              /\ \A i \in 0..(n - 1) : i >= MaxStoredCards => hist[i].kind = "none"
              /\ (mode = STANDARD) => /\ variant = "part_004"
                                      /\ \A i \in 0..(n - 1) : hist[i].kind = "none"
              /\ g = queueGlobals(variant, mode, n,
                        IF \A i \in 0..(n - 1) : hist[i].kind = "none" THEN << >>
                        ELSE pgnFileKey :> cardsOf(n, hist))
    /\ now = MaxQueueDays * msPerDay
    /\ pre = [g |-> g, now |-> now, preNow |-> now, lastOp |-> "init",
              blockErr |-> FALSE, blockDone |-> 0, bonus5 |-> 0]
    /\ preNow = now
    /\ lastOp = "init"
    /\ ret = TRUE
    /\ blockErr = FALSE
    /\ blockDone = 0
    /\ reviews = 0
    /\ bonus5 = 0

NextQueue == LoadPGNFile \/ StartTestQueue \/ WrongMoveQueue \/ PuzzleSolvedQueue

SpecQueue == InitQueue /\ [][NextQueue]_vars

isPermutation(order, n) ==
    /\ Len(order) = n
    /\ {order[k] : k \in 1..Len(order)} = 0..(n - 1)

\* The queue of part_005 is in use: the session was started in the adaptive mode.
reinsertingQueue ==
    g.currentGameMode = INFINITY /\ g.variant = "part_005" /\ g.started

\* C25 as stated: once a file is loaded, Puzzle Order has the length of the
\* puzzle set and is a permutation of 0..n-1, in the standard modes and in
\* the adaptive queue alike.
C25_PuzzleOrderIsPermutation ==
    g.puzzleset > 0 => isPermutation(g.PuzzleOrder, g.puzzleset)

\* C25 (amended): once a file is loaded Puzzle Order holds every index of
\* 0..n-1 and nothing else, and the cursor stands inside it; it is a
\* permutation of length n in the standard modes, in the rebuilding queue
\* of part_004, and in the queue of part_005 right after it is built; a
\* completion with an error in part_005 makes it one entry longer, the
\* added entry being the failed puzzle.
C25_PuzzleOrderCoversThePuzzles ==
    g.puzzleset > 0 =>
        /\ {g.PuzzleOrder[k] : k \in 1..Len(g.PuzzleOrder)} = 0..(g.puzzleset - 1)
        /\ g.increment >= 0 /\ g.increment < Len(g.PuzzleOrder)
        /\ ~reinsertingQueue => isPermutation(g.PuzzleOrder, g.puzzleset)
        /\ (reinsertingQueue /\ lastOp = "startTest") =>
               isPermutation(g.PuzzleOrder, g.puzzleset)
        /\ (reinsertingQueue /\ lastOp = "puzzleSolved") =>
              IF g.increment = 0
              THEN isPermutation(g.PuzzleOrder, g.puzzleset)
              ELSE IF pre.g.srCurrentPuzzleHadError
              THEN /\ Len(g.PuzzleOrder) = Len(pre.g.PuzzleOrder) + 1
                   /\ \E k \in 1..Len(g.PuzzleOrder) :
                         /\ k > g.increment
                         /\ g.PuzzleOrder[k] = pre.g.PuzzleOrder[pre.g.increment + 1]
                         /\ g.PuzzleOrder = splice(pre.g.PuzzleOrder, k - 1, g.PuzzleOrder[k])
              ELSE g.PuzzleOrder = pre.g.PuzzleOrder

\* A failed puzzle was put back inside the queue, before its end.
C25_Witness ==
    /\ reinsertingQueue
    /\ lastOp = "puzzleSolved"
    /\ pre.g.srCurrentPuzzleHadError
    /\ Len(g.PuzzleOrder) = g.puzzleset + 1
    /\ g.PuzzleOrder[Len(g.PuzzleOrder)] # pre.g.PuzzleOrder[pre.g.increment + 1]

----------------------------------------------------------------------------
(* The hook-based repetition mode: part_001 on game-modes.js (1-499), with  *)
(* startTest and resetGame of part_008                                      *)

MaxHookPuzzles == 3   \* files of 0..MaxHookPuzzles puzzles (0: nothing loaded)
MaxHookLevel == 2     \* MODE_CONFIGS.repetition.puzzlesPerLevel in 1..MaxHookLevel

Digits == <<"0", "1", "2", "3", "4", "5", "6", "7", "8", "9">>

isDigit(c) == \E d \in 1..10 : Digits[d] = c

digitValue(c) == (CHOOSE d \in 1..10 : Digits[d] = c) - 1

\* String(idx) of a non-negative integer, as the sequence of its characters
RECURSIVE String(_)
String(idx) ==
    IF idx < 10 THEN <<Digits[idx + 1]>>
    ELSE String(idx \div 10) \o <<Digits[(idx % 10) + 1]>>

NaN == -2147483647

RECURSIVE digitsValue(_)
digitsValue(text) ==
    IF text = << >> THEN 0
    ELSE 10 * digitsValue(SubSeq(text, 1, Len(text) - 1)) + digitValue(text[Len(text)])

RECURSIVE skipSpace(_)
skipSpace(text) ==
    IF text # << >> /\ text[1] = " " THEN skipSpace(Tail(text)) ELSE text

RECURSIVE digitPrefix(_)
digitPrefix(text) ==
    IF text # << >> /\ isDigit(text[1]) THEN <<text[1]>> \o digitPrefix(Tail(text))
    ELSE << >>

\* parseInt(v, 10): leading white space, a sign, the longest run of digits;
\* NaN when there is no digit.
parseInt(v) ==
    LET t1   == skipSpace(v)
        neg  == t1 # << >> /\ t1[1] = "-"
        t2   == IF t1 # << >> /\ t1[1] \in {"-", "+"} THEN Tail(t1) ELSE t1
        run  == digitPrefix(t2)
    IN  IF run = << >> THEN NaN
        ELSE IF neg THEN 0 - digitsValue(run) ELSE digitsValue(run)

repetitionSetIndex == "repetitionSetIndex"

\* localStorage.getItem gives null for a missing key; null and the empty
\* text are falsy.
loadProgress(storage) ==
    IF repetitionSetIndex \in DOMAIN storage /\ storage[repetitionSetIndex] # << >>
    THEN parseInt(storage[repetitionSetIndex])
    ELSE 0

saveProgress(s, idx) ==
    [s EXCEPT !.localStorage = (repetitionSetIndex :> String(idx)) @@ @]

repLevelEnd(s) == min(s.repState.levelStartIncrement + s.REP_LEVEL_SIZE, s.puzzleset)

repPuzzlesDoneInLevel(s) == (s.increment - s.repState.levelStartIncrement) + 1

syncRepDisplay(s) ==
    LET progress == repPuzzlesDoneInLevel(s)
    IN  [s EXCEPT !.modeState.currentLevel  = s.repState.currentLevel,
                  !.modeState.levelProgress = IF progress <= 0 THEN 1 ELSE progress,
                  !.modeState.levelErrors   = s.repState.levelErrors]

\* setTimeout(..., 350) leaves a callback waiting in restartTimers.
doLevelRestart(s) ==
    IF s.repState.restarting THEN s
    ELSE syncRepDisplay([s EXCEPT !.repState.restarting  = TRUE,
                                  !.repState.levelErrors = 0,
                                  !.increment = s.repState.levelStartIncrement,
                                  !.restartTimers = @ + 1])

\* The callback of doLevelRestart
restartCallback(s) ==
    LET s1 == [s EXCEPT !.repState.restarting = FALSE, !.restartTimers = @ - 1]
    IN  IF s1.puzzleset > 0 THEN loadPuzzle(s1) ELSE s1

_repetitionPuzzleComplete(s) ==
    LET s1      == IF s.error THEN [s EXCEPT !.repState.levelErrors = @ + 1] ELSE s
        done    == repPuzzlesDoneInLevel(s1)
        levelSz == repLevelEnd(s1) - s1.repState.levelStartIncrement
        s2      == syncRepDisplay(s1)
    IN  IF done >= levelSz
        THEN IF s2.repState.levelErrors = 0
             THEN LET nextStart == repLevelEnd(s2)
                  IN  syncRepDisplay(saveProgress(
                          [s2 EXCEPT !.repState.currentLevel        = @ + 1,
                                     !.repState.levelStartIncrement = nextStart,
                                     !.repState.levelErrors         = 0],
                          nextStart))
             ELSE doLevelRestart(s2)
        ELSE s2

\* puzzleset is declared in part_008 and is an array from initalize on: the
\* first line returns false for no set of the model.
_repetitionShouldContinue(s) ==
    LET done    == repPuzzlesDoneInLevel(s)
        levelSz == repLevelEnd(s) - s.repState.levelStartIncrement
    IN  IF done >= levelSz
        THEN IF s.repState.levelErrors > 0 THEN FALSE
             ELSE s.increment + 1 < s.puzzleset
        ELSE s.increment + 1 < s.puzzleset

_repModeInit(s) ==
    LET s1 == [s EXCEPT !.repState = [currentLevel |-> 1, levelStartIncrement |-> 0,
                                      levelErrors |-> 0, restarting |-> FALSE]]
    IN  IF s1.currentGameMode = REPETITION
        THEN LET savedStart == loadProgress(s1.localStorage)
             IN  syncRepDisplay(
                     [s1 EXCEPT !.repState.levelStartIncrement = savedStart,
                                !.repState.currentLevel =
                                    (savedStart \div s1.REP_LEVEL_SIZE) + 1])
        ELSE s1

\* game-modes.js with part_001 loaded: the hooks are functions.
resetModeState_hook(s) == _repModeInit(resetModeState_gm(s))

handlePuzzleComplete_hook(s) ==
    IF s.currentGameMode = REPETITION THEN _repetitionPuzzleComplete(s)
    ELSE handlePuzzleComplete_gm(s)

shouldContinueToNextPuzzle_hook(s) ==
    IF s.currentGameMode = REPETITION THEN _repetitionShouldContinue(s)
    ELSE shouldContinueToNextPuzzle_gm(s)

puzzleSolved_hook(s) ==
    LET s1 == handlePuzzleComplete_hook(s)
    IN  IF shouldContinueToNextPuzzle_hook(s1)
        THEN loadPuzzle([s1 EXCEPT !.increment = @ + 1])
        ELSE [s1 EXCEPT !.setcomplete = TRUE, !.puzzlecomplete = TRUE]

\* A startTest without the test of the puzzle set.
startTest_hook_always(s, t) ==
    startModeTimer_gm([s EXCEPT !.setcomplete        = FALSE,
                                !.pauseflag          = FALSE,
                                !.startDateTime      = t,
                                !.pauseDateTimeTotal = 0])

startTest_hook(s, t) ==
    IF s.puzzleset = 0 THEN s
    ELSE startModeTimer_gm([s EXCEPT !.setcomplete        = FALSE,
                                     !.pauseflag          = FALSE,
                                     !.startDateTime      = t,
                                     !.pauseDateTimeTotal = 0])

\* resetGame (part_008 1152-1185) also clears puzzlecomplete and pauseflag.
resetGame_hook(s) ==
    [resetGame(s) EXCEPT !.puzzlecomplete = FALSE, !.pauseflag = FALSE, !.error = FALSE]

\* The globals after page load on a file of n puzzles (none for n = 0), in
\* mode `mode`, with the storage `stored`.
hookGlobals(n, mode, size, stored) ==
    LET base == [f \in DOMAIN loadedGlobals_gm(n) \cup
                       {"repState", "REP_LEVEL_SIZE", "localStorage", "restartTimers",
                        "pauseflag", "startDateTime", "pauseDateTimeTotal"} |->
                    CASE f = "repState" -> [currentLevel |-> 1, levelStartIncrement |-> 0,
                                            levelErrors |-> 0, restarting |-> FALSE]
                      [] f = "REP_LEVEL_SIZE"     -> size
                      [] f = "localStorage"       -> stored
                      [] f = "restartTimers"      -> 0
                      [] f = "pauseflag"          -> FALSE
                      [] f = "startDateTime"      -> 0
                      [] f = "pauseDateTimeTotal" -> 0
                      [] f = "currentGameMode"    -> mode
                      [] f = "loaded"             -> IF n = 0 THEN Undefined ELSE 0
                      [] OTHER -> loadedGlobals_gm(n)[f]]
    IN  resetModeState_hook(base)

StartTestHook ==
    /\ g' = startTest_hook(g, now)
    /\ pre' = History
    /\ lastOp' = "startTest"
    /\ UNCHANGED <<now, preNow, ret, blockErr, blockDone, reviews, bonus5>>

WrongMoveHook ==
    /\ canMove
    /\ g' = wrongMove_gm(g)
    /\ pre' = History
    /\ lastOp' = "wrongMove"
    /\ UNCHANGED <<now, preNow, ret, blockErr, blockDone, reviews, bonus5>>

PuzzleSolvedHook ==
    /\ canMove
    /\ ~g.puzzlecomplete
    /\ g' = puzzleSolved_hook(g)
    /\ ret' = shouldContinueToNextPuzzle_hook(handlePuzzleComplete_hook(g))
    /\ pre' = History
    /\ lastOp' = "puzzleSolved"
    /\ UNCHANGED <<now, preNow, blockErr, blockDone, reviews, bonus5>>

\* 350 ms after doLevelRestart
RestartCallback ==
    /\ g.restartTimers > 0
    /\ g' = restartCallback(g)
    /\ pre' = History
    /\ lastOp' = "restartCallback"
    /\ UNCHANGED <<now, preNow, ret, blockErr, blockDone, reviews, bonus5>>

\* The user changes the piece set or declines to resume: resetGame
ResetGameHook ==
    /\ g.puzzleset > 0
    /\ g' = resetGame_hook(g)
    /\ pre' = History
    /\ lastOp' = "resetGame"
    /\ UNCHANGED <<now, preNow, ret, blockErr, blockDone, reviews, bonus5>>

InitHook ==
    /\ \E n \in 0..MaxHookPuzzles, mode \in {REPETITION, COUNTDOWN},
          size \in 1..MaxHookLevel, saved \in {-1} \cup 0..MaxHookPuzzles :
          /\ mode = COUNTDOWN => saved = -1
          /\ g = hookGlobals(n, mode, size, IF saved = -1 THEN << >>
                                             ELSE repetitionSetIndex :> String(saved))
    /\ now = 0
    /\ pre = [g |-> g, now |-> now, preNow |-> now, lastOp |-> "init",
              blockErr |-> FALSE, blockDone |-> 0, bonus5 |-> 0]
    /\ preNow = now
    /\ lastOp = "init"
    /\ ret = TRUE
    /\ blockErr = FALSE
    /\ blockDone = 0
    /\ reviews = 0
    /\ bonus5 = 0

NextHook ==
    \/ StartTestHook
    \/ WrongMoveHook
    \/ PuzzleSolvedHook
    \/ RestartCallback
    \/ ResetGameHook
    \/ TimerTick

SpecHook == InitHook /\ [][NextHook]_vars

dirtyBlockEnd ==
    /\ lastOp = "puzzleSolved"
    /\ pre.g.currentGameMode = REPETITION
    /\ pre.g.increment >= pre.g.repState.levelStartIncrement
    /\ pre.g.increment = repLevelEnd(pre.g) - 1
    /\ (pre.g.repState.levelErrors > 0 \/ pre.g.error)
    /\ ~pre.g.repState.restarting

\* C30: in the hook-based repetition variant, when the last puzzle of a
\* block completes and the block had at least one puzzle with an error,
\* _repetitionShouldContinue (called after _repetitionPuzzleComplete)
\* returns false, so the main application does not advance, and the puzzle
\* loaded by the delayed restart callback is the one at levelStartIncrement.
C30_DirtyBlockHoldsAndRestarts ==
    /\ dirtyBlockEnd => /\ ret = FALSE
                        /\ g.increment = pre.g.repState.levelStartIncrement
    /\ (lastOp = "restartCallback" /\ g.puzzleset > 0) =>
          /\ inRange([g EXCEPT !.increment = g.repState.levelStartIncrement])
          /\ g.loaded = g.PuzzleOrder[g.repState.levelStartIncrement + 1]

----------------------------------------------------------------------------
(* Persistence: loadGameState (part_009), srLoadCards (part_004) and        *)
(* loadProgress (part_001) on the texts found in localStorage.  A text is   *)
(* the sequence of its characters; a JSON value is a number, null, an array *)
(* or an object with its members in order.                                  *)

MaxPersistIndex == 2   \* saved cursors and block starts 0..MaxPersistIndex

jsonNull == [t |-> "null", n |-> 0, items |-> << >>]
jsonNum(n) == [t |-> "num", n |-> n, items |-> << >>]
jsonArr(items) == [t |-> "arr", n |-> 0, items |-> items]
jsonObj(members) == [t |-> "obj", n |-> 0, items |-> members]

RECURSIVE JSONstringify(_)
RECURSIVE stringifyItems(_, _)
JSONstringify(v) ==
    CASE v.t = "num"  -> IF v.n < 0 THEN <<"-">> \o String(0 - v.n) ELSE String(v.n)
      [] v.t = "null" -> <<"n", "u", "l", "l">>
      [] v.t = "arr"  -> <<"[">> \o stringifyItems(v.items, FALSE) \o <<"]">>
      [] OTHER        -> <<"{">> \o stringifyItems(v.items, TRUE) \o <<"}">>

stringifyItems(items, members) ==
    IF items = << >> THEN << >>
    ELSE LET one == IF members
                    THEN <<"\"">> \o items[1].k \o <<"\"", ":">> \o JSONstringify(items[1].v)
                    ELSE JSONstringify(items[1])
         IN  IF Len(items) > 1
             THEN one \o <<",">> \o stringifyItems(Tail(items), members)
             ELSE one

noParse == [ok |-> FALSE, v |-> jsonNull, rest |-> << >>]

startsWith(text, p) == Len(text) >= Len(p) /\ SubSeq(text, 1, Len(p)) = p

drop(text, k) == SubSeq(text, k + 1, Len(text))

RECURSIVE upToQuote(_)
upToQuote(text) ==
    IF text = << >> \/ text[1] = "\"" THEN << >>
    ELSE <<text[1]>> \o upToQuote(Tail(text))

\* The grammar of JSON.parse on numbers without fraction, null, arrays and
\* objects; anything else is a SyntaxError.
RECURSIVE parseValue(_)
RECURSIVE parseItems(_, _, _)
parseValue(text0) ==
    LET text == skipSpace(text0)
    IN  IF text = << >> THEN noParse
        ELSE IF isDigit(text[1])
        THEN LET run == IF text[1] = "0" THEN <<"0">> ELSE digitPrefix(text)
             IN  [ok |-> TRUE, v |-> jsonNum(digitsValue(run)), rest |-> drop(text, Len(run))]
        ELSE IF text[1] = "-" /\ Len(text) > 1 /\ isDigit(text[2])
        THEN LET run == IF text[2] = "0" THEN <<"0">> ELSE digitPrefix(Tail(text))
             IN  [ok |-> TRUE, v |-> jsonNum(0 - digitsValue(run)),
                  rest |-> drop(text, Len(run) + 1)]
        ELSE IF startsWith(text, <<"n", "u", "l", "l">>)
        THEN [ok |-> TRUE, v |-> jsonNull, rest |-> drop(text, 4)]
        ELSE IF text[1] = "[" THEN parseItems(skipSpace(Tail(text)), << >>, FALSE)
        ELSE IF text[1] = "{" THEN parseItems(skipSpace(Tail(text)), << >>, TRUE)
        ELSE noParse

\* text stands after the opening bracket or after a comma.
parseItems(text, acc, members) ==
    LET close == IF members THEN "}" ELSE "]"
        done(items, rest) ==
            [ok |-> TRUE, v |-> IF members THEN jsonObj(items) ELSE jsonArr(items),
             rest |-> rest]
    IN  IF text = << >> THEN noParse
        ELSE IF text[1] = close /\ acc = << >> THEN done(acc, Tail(text))
        ELSE LET key   == IF members /\ text[1] = "\"" THEN upToQuote(Tail(text)) ELSE << >>
                 afterKey == IF members THEN skipSpace(drop(text, Len(key) + 2)) ELSE text
                 keyOk == ~members \/ (/\ text[1] = "\""
                                       /\ Len(text) >= Len(key) + 2
                                       /\ afterKey # << >> /\ afterKey[1] = ":")
                 r     == IF keyOk
                          THEN parseValue(IF members THEN Tail(afterKey) ELSE text)
                          ELSE noParse
                 item  == IF members THEN [k |-> key, v |-> r.v] ELSE r.v
                 next  == skipSpace(r.rest)
             IN  IF ~r.ok \/ next = << >> THEN noParse
                 ELSE IF next[1] = close THEN done(Append(acc, item), Tail(next))
                 ELSE IF next[1] = "," THEN parseItems(skipSpace(Tail(next)),
                                                       Append(acc, item), members)
                 ELSE noParse

JSONparse(text) ==
    LET r == parseValue(text)
    IN  IF r.ok /\ skipSpace(r.rest) = << >>
        THEN [throws |-> FALSE, value |-> r.v]
        ELSE [throws |-> TRUE, value |-> jsonNull]

savedGameState == "savedGameState"
sr_cards == "sr_cards_pgn"

\* localStorage.getItem(key) is truthy: the key is there with a text that
\* is not empty.
truthyItem(storage, key) == key \in DOMAIN storage /\ storage[key] # << >>

\* state ? JSON.parse(state) : null
loadGameState(storage) ==
    IF truthyItem(storage, savedGameState)
    THEN JSONparse(storage[savedGameState])
    ELSE [throws |-> FALSE, value |-> jsonNull]

\* srCards = raw ? JSON.parse(raw) : {}; a throw leaves srCards as it was.
srLoadCards_text(s) ==
    LET r == IF truthyItem(s.localStorage, sr_cards)
             THEN JSONparse(s.localStorage[sr_cards])
             ELSE [throws |-> FALSE, value |-> jsonObj(<< >>)]
    IN  [s |-> IF r.throws THEN s ELSE [s EXCEPT !.srCards = r.value], throws |-> r.throws]

saveGameState(s, state) ==
    [s EXCEPT !.localStorage = (savedGameState :> JSONstringify(state)) @@ @]

\* The state object of saveCurrentGameProgress, two of its members
stateObject(increment) ==
    jsonObj(<<[k |-> <<"i", "n", "c", "r", "e", "m", "e", "n", "t">>,
               v |-> jsonNum(increment)],
              [k |-> <<"P", "u", "z", "z", "l", "e", "O", "r", "d", "e", "r">>,
               v |-> jsonArr(<<jsonNum(0), jsonNum(1), jsonNum(2)>>)]>>)

\* The card map with a card for puzzle 0, two of its members
cardMap(interval) ==
    jsonObj(<<[k |-> <<"0">>,
               v |-> jsonObj(<<[k |-> <<"i", "n", "d", "e", "x">>, v |-> jsonNum(0)],
                               [k |-> <<"i", "n", "t", "e", "r", "v", "a", "l">>,
                                v |-> jsonNum(interval)]>>)]>>)

\* What the page can find under a key: nothing, the text a save wrote, that
\* text cut short, or a text of another origin.
textsOf(values) ==
    {JSONstringify(v) : v \in values}
        \cup {SubSeq(JSONstringify(v), 1, Len(JSONstringify(v)) - 1) : v \in values}
        \cup {<< >>, <<"a", "b", "c">>, <<"u", "n", "d", "e", "f", "i", "n", "e", "d">>}

storageOf(key, text, present) == IF present THEN key :> text ELSE << >>

LoadGameState ==
    /\ ret' = loadGameState(g.localStorage) @@ [number |-> 0]
    /\ pre' = History
    /\ lastOp' = "loadGameState"
    /\ UNCHANGED <<g, now, preNow, blockErr, blockDone, reviews, bonus5>>

SrLoadCards ==
    /\ g' = srLoadCards_text(g).s
    /\ ret' = [throws |-> srLoadCards_text(g).throws, value |-> g'.srCards, number |-> 0]
    /\ pre' = History
    /\ lastOp' = "srLoadCards"
    /\ UNCHANGED <<now, preNow, blockErr, blockDone, reviews, bonus5>>

LoadProgress ==
    /\ ret' = [throws |-> FALSE, value |-> jsonNull, number |-> loadProgress(g.localStorage)]
    /\ pre' = History
    /\ lastOp' = "loadProgress"
    /\ UNCHANGED <<g, now, preNow, blockErr, blockDone, reviews, bonus5>>

SaveGameState ==
    /\ \E increment \in 0..MaxPersistIndex : g' = saveGameState(g, stateObject(increment))
    /\ pre' = History
    /\ lastOp' = "saveGameState"
    /\ UNCHANGED <<now, preNow, ret, blockErr, blockDone, reviews, bonus5>>

SaveProgress ==
    /\ \E idx \in 0..MaxPersistIndex : g' = saveProgress(g, idx)
    /\ pre' = History
    /\ lastOp' = "saveProgress"
    /\ UNCHANGED <<now, preNow, ret, blockErr, blockDone, reviews, bonus5>>

InitPersist ==
    /\ \E hasState, hasCards, hasIndex \in BOOLEAN :
       \E state \in textsOf({stateObject(i) : i \in 0..MaxPersistIndex}),
          cards \in textsOf({cardMap(1), jsonObj(<< >>)}),
          index \in {String(i) : i \in 0..MaxPersistIndex}
                       \cup {<< >>, <<"a", "b", "c">>, <<"3", "x">>, <<" ", "7">>,
                             <<"N", "a", "N">>} :
          /\ ~hasState => state = << >>
          /\ ~hasCards => cards = << >>
          /\ ~hasIndex => index = << >>
          /\ g = [localStorage |-> storageOf(savedGameState, state, hasState)
                                   @@ storageOf(sr_cards, cards, hasCards)
                                   @@ storageOf(repetitionSetIndex, index, hasIndex),
                  srCards |-> jsonObj(<< >>)]
    /\ now = 0
    /\ pre = [g |-> g, now |-> now, preNow |-> now, lastOp |-> "init",
              blockErr |-> FALSE, blockDone |-> 0, bonus5 |-> 0]
    /\ preNow = now
    /\ lastOp = "init"
    /\ ret = [throws |-> FALSE, value |-> jsonNull, number |-> 0]
    /\ blockErr = FALSE
    /\ blockDone = 0
    /\ reviews = 0
    /\ bonus5 = 0

NextPersist ==
    LoadGameState \/ SrLoadCards \/ LoadProgress \/ SaveGameState \/ SaveProgress

SpecPersist == InitPersist /\ [][NextPersist]_vars

\* Nothing usable is stored under the key: it is missing, or not valid JSON.
notValidJSON(storage, key) ==
    key \notin DOMAIN storage \/ JSONparse(storage[key]).throws

\* The key is missing or its text is not a decimal numeral.
notANumber(storage, key) ==
    \/ key \notin DOMAIN storage
    \/ storage[key] = << >>
    \/ \E k \in 1..Len(storage[key]) : ~isDigit(storage[key][k])

\* C27: loading persisted state that is missing or corrupted (not valid
\* JSON, not a number) is treated as no saved state: loadGameState returns
\* null, card loading yields an empty card map, loadProgress yields 0, and
\* none of them raises an error.
C27_CorruptedIsNoSavedState ==
    /\ (lastOp = "loadGameState" /\ notValidJSON(pre.g.localStorage, savedGameState)) =>
          ~ret.throws /\ ret.value = jsonNull
    /\ (lastOp = "srLoadCards" /\ notValidJSON(pre.g.localStorage, sr_cards)) =>
          ~ret.throws /\ ret.value = jsonObj(<< >>)
    /\ (lastOp = "loadProgress" /\ notANumber(pre.g.localStorage, repetitionSetIndex)) =>
          ~ret.throws /\ ret.number = 0

----------------------------------------------------------------------------
(* reverse-mode.js: the levels of a puzzle solved backwards.  A move of the *)
(* solution is named by its index; chess.js is the side to move and the     *)
(* moves applied, and a move it rejects is marked in the puzzle.            *)

MaxReverseMoves == 5   \* solutions of 0..MaxReverseMoves moves

otherSide(side) == IF side = "w" THEN "b" ELSE "w"

\* new Chess(currentPuzzle.position)
Chess(position) == [turn |-> position, applied |-> << >>]

\* game.move(originalMoves[i]): null and no change when the move is rejected
moveAccepted(currentPuzzle, i) == currentPuzzle.accepted[i + 1]

move(game, currentPuzzle, i) ==
    IF moveAccepted(currentPuzzle, i)
    THEN [turn |-> otherSide(game.turn), applied |-> Append(game.applied, i)]
    ELSE game

\* The loop of initializeReverseMode from index i on
RECURSIVE findUserMoves(_, _, _, _, _)
findUserMoves(currentPuzzle, winningSide, tempGame, i, userMoveIndices) ==
    IF i >= Len(currentPuzzle.moves) THEN userMoveIndices
    ELSE IF ~moveAccepted(currentPuzzle, i)
    THEN findUserMoves(currentPuzzle, winningSide, tempGame, i + 1, userMoveIndices)
    ELSE LET after == move(tempGame, currentPuzzle, i)
         IN  findUserMoves(currentPuzzle, winningSide, after, i + 1,
                 IF i = 0 \/ winningSide = after.turn
                 THEN Append(userMoveIndices, i) ELSE userMoveIndices)

initializeReverseMode(currentPuzzle) ==
    LET tempGame == Chess(currentPuzzle.position)
        indices  == findUserMoves(currentPuzzle, tempGame.turn, tempGame, 0, << >>)
    IN  IF Len(currentPuzzle.moves) = 0
        THEN [originalMoves |-> currentPuzzle.moves, userMoveIndices |-> << >>,
              winningSide |-> "none", currentLevel |-> 0, maxLevel |-> 0,
              completedLevels |-> {}]
        ELSE [originalMoves |-> currentPuzzle.moves, userMoveIndices |-> indices,
              winningSide |-> tempGame.turn, currentLevel |-> 0,
              maxLevel |-> Len(indices), completedLevels |-> {}]

\* The setup loop: the moves 0..upTo-1 are applied from index i on
RECURSIVE applySetupMoves(_, _, _, _)
applySetupMoves(currentPuzzle, gameState, i, upTo) ==
    IF i >= upTo THEN gameState
    ELSE applySetupMoves(currentPuzzle, move(gameState, currentPuzzle, i), i + 1, upTo)

\* userMoveIndices[startMoveIndex] is undefined outside the array
setupReverseLevel(currentPuzzle, reverseModeData, level) ==
    LET userMovesNeeded == level + 1
        userMovesTotal  == Len(reverseModeData.userMoveIndices)
        startMoveIndex  == userMovesTotal - userMovesNeeded
        defined         == startMoveIndex >= 0 /\ startMoveIndex < userMovesTotal
        firstUserMoveInSolution ==
            IF defined THEN reverseModeData.userMoveIndices[startMoveIndex + 1]
            ELSE Undefined
    IN  [game                 |-> IF defined
                                  THEN applySetupMoves(currentPuzzle,
                                           Chess(currentPuzzle.position), 0,
                                           firstUserMoveInSolution)
                                  ELSE Chess(currentPuzzle.position),
         currentUserMoveIndex |-> startMoveIndex,
         userMovesInLevel     |-> 0,
         userMovesNeeded      |-> userMovesNeeded,
         firstUserMoveIndex   |-> firstUserMoveInSolution]

\* The move validateReverseMove expects; check and mate signs are stripped
\* from both sides of the comparison, a move is its index here.
validateReverseMove(playedMove, reverseModeData, levelState) ==
    IF levelState.currentUserMoveIndex >= Len(reverseModeData.userMoveIndices)
       \/ levelState.currentUserMoveIndex < 0
    THEN [isCorrect |-> FALSE, moveIndex |-> Undefined, nextMoveIndex |-> Undefined]
    ELSE LET target == reverseModeData.userMoveIndices[levelState.currentUserMoveIndex + 1]
         IN  [isCorrect     |-> playedMove = reverseModeData.originalMoves[target + 1],
              moveIndex     |-> target,
              nextMoveIndex |-> levelState.currentUserMoveIndex + 1]

noLevel ==
    [game |-> Chess("w"), currentUserMoveIndex |-> Undefined, userMovesInLevel |-> 0,
     userMovesNeeded |-> 0, firstUserMoveIndex |-> Undefined]

noResult == [isCorrect |-> FALSE, moveIndex |-> Undefined, nextMoveIndex |-> Undefined]

noData ==
    [originalMoves |-> << >>, userMoveIndices |-> << >>, winningSide |-> "none",
     currentLevel |-> 0, maxLevel |-> 0, completedLevels |-> {}]

\* The puzzle is loaded in reverse mode: initializeReverseMode
InitializeReverseMode ==
    /\ g.reverseModeData = noData
    /\ g' = [g EXCEPT !.reverseModeData = initializeReverseMode(g.currentPuzzle)]
    /\ pre' = History
    /\ lastOp' = "initializeReverseMode"
    /\ UNCHANGED <<now, preNow, ret, blockErr, blockDone, reviews, bonus5>>

\* A level of the puzzle is set up.
SetupReverseLevel ==
    /\ \E level \in 0..(g.reverseModeData.maxLevel - 1) :
          g' = [g EXCEPT !.levelState = setupReverseLevel(g.currentPuzzle, g.reverseModeData, level),
                         !.reverseModeData.currentLevel = level,
                         !.validation = noResult]
    /\ pre' = History
    /\ lastOp' = "setupReverseLevel"
    /\ UNCHANGED <<now, preNow, ret, blockErr, blockDone, reviews, bonus5>>

\* The user plays a move on the level that was set up.
ValidateReverseMove ==
    /\ g.levelState # noLevel
    /\ g.validation = noResult
    /\ \E playedMove \in 0..(Len(g.currentPuzzle.moves) - 1) :
          g' = [g EXCEPT !.validation =
                   validateReverseMove(playedMove, g.reverseModeData, g.levelState)]
    /\ pre' = History
    /\ lastOp' = "validateReverseMove"
    /\ UNCHANGED <<now, preNow, ret, blockErr, blockDone, reviews, bonus5>>

InitReverse ==
    /\ \E L \in 0..MaxReverseMoves, position \in {"w", "b"} :
          \E accepted \in [1..L -> BOOLEAN] :
              g = [currentPuzzle |-> [moves |-> [i \in 1..L |-> i - 1],
                                      position |-> position, accepted |-> accepted],
                   reverseModeData |-> noData,
                   levelState |-> noLevel, validation |-> noResult]
    /\ now = 0
    /\ pre = [g |-> g, now |-> now, preNow |-> now, lastOp |-> "init",
              blockErr |-> FALSE, blockDone |-> 0, bonus5 |-> 0]
    /\ preNow = now
    /\ lastOp = "init"
    /\ ret = TRUE
    /\ blockErr = FALSE
    /\ blockDone = 0
    /\ reviews = 0
    /\ bonus5 = 0

NextReverse == InitializeReverseMode \/ SetupReverseLevel \/ ValidateReverseMove

SpecReverse == InitReverse /\ [][NextReverse]_vars

\* The indices of the user's own moves in a solution of L moves that
\* alternates sides and starts with the user's side: 0, 2, 4, ...
ownMoves(L) == [k \in 1..((L + 1) \div 2) |-> 2 * (k - 1)]

\* Every move of the solution is accepted: the sides alternate.
alternating(currentPuzzle) ==
    /\ Len(currentPuzzle.moves) > 0
    /\ \A i \in 1..Len(currentPuzzle.moves) : currentPuzzle.accepted[i]

\* C28: for a puzzle whose solution alternates sides starting with the
\* user's side, userMoveIndices is exactly the list of indices of the
\* user's own moves, and level k (1-based) is set up at the position just
\* before the k-th-from-last user move and expects exactly the last k user
\* moves; in particular level 1 expects only the final move of a solution
\* that ends with a move of the user.
C28_LevelsCountUserMovesFromTheEnd ==
    (alternating(g.currentPuzzle) /\ g.reverseModeData # noData) =>
        LET L    == Len(g.currentPuzzle.moves)
            own  == ownMoves(L)
            k    == g.levelState.userMovesNeeded
        IN  /\ g.reverseModeData.userMoveIndices = own
            /\ g.reverseModeData.maxLevel = Len(own)
            /\ lastOp = "setupReverseLevel" =>
                  /\ g.levelState.firstUserMoveIndex = own[Len(own) - k + 1]
                  /\ g.levelState.game.applied =
                        [i \in 1..own[Len(own) - k + 1] |-> i - 1]
                  /\ g.levelState.game.turn = g.currentPuzzle.position
                  /\ SubSeq(g.reverseModeData.userMoveIndices,
                            g.levelState.currentUserMoveIndex + 1,
                            Len(g.reverseModeData.userMoveIndices))
                        = SubSeq(own, Len(own) - k + 1, Len(own))
                  /\ (k = 1 /\ L % 2 = 1) => g.levelState.firstUserMoveIndex = L - 1

----------------------------------------------------------------------------
(* The integrated reverse mode (modes/repetition.js 250-995): reverseStep   *)
(* counts the moves of the current puzzle the user has to play.  The main   *)
(* application of this variant is not in the sources; MANUS_AI_REVIEW.md    *)
(* gives its loadPuzzle, which plays moveHistory.length - reverseStep moves *)
(* before the user.                                                         *)

MaxReversePuzzles == 2   \* files of 1..MaxReversePuzzles puzzles
MaxReverseLen == 3       \* solutions of 1..MaxReverseLen moves
MaxReverseSolved == 6    \* totalSolved is followed up to MaxReverseSolved
MaxReverseHints == 1     \* hints asked in one run

REVERSE == "reverse"

\* config.timeLimit || config.baseTime || 0, config.lives || 0, config.hints
\* || 0: the two modes of the model have none of them.
resetModeState_rev(s) ==
    [s EXCEPT !.modeState = [timeRemaining |-> 0, livesRemaining |-> 0,
                             hintsRemaining |-> 0, currentLevel |-> 1,
                             levelProgress |-> 0, levelErrors |-> 0,
                             totalSolved |-> 0, modeTimer |-> null,
                             isActive |-> FALSE, reverseStep |-> 1]]

\* isActive is set by startModeTimer alone, in the modes that have a timer.
setGameMode_rev(s, mode, confirmed) ==
    IF s.modeState.isActive /\ ~confirmed THEN s
    ELSE LET s1 == IF s.modeState.isActive
                   THEN resetGame([s EXCEPT !.modeState.modeTimer = null,
                                            !.modeState.isActive  = FALSE])
                   ELSE s
         IN  resetModeState_rev([s1 EXCEPT !.currentGameMode = mode])

handleCorrectMove_rev(s) == [s EXCEPT !.modeState.totalSolved = @ + 1]

handleHintUsed_rev(s) ==
    IF s.currentGameMode = REVERSE
    THEN [s EXCEPT !.modeState.hintsRemaining = @ - 1]
    ELSE s

\* A reverse mode that asks for one step more than the puzzle has moves.
shouldContinueToNextPuzzle_rev_oneMore(s) ==
    IF s.currentGameMode = REVERSE
    THEN IF s.modeState.reverseStep <= Len(s.moveHistory)
         THEN [s |-> [s EXCEPT !.modeState.reverseStep = @ + 1], ret |-> FALSE]
         ELSE [s |-> [s EXCEPT !.modeState.reverseStep = 1],
               ret |-> s.increment + 1 < s.puzzleset]
    ELSE [s |-> s, ret |-> s.increment + 1 < s.puzzleset]

shouldContinueToNextPuzzle_rev(s) ==
    IF s.currentGameMode = REVERSE
    THEN IF s.modeState.reverseStep < Len(s.moveHistory)
         THEN [s |-> [s EXCEPT !.modeState.reverseStep = @ + 1], ret |-> FALSE]
         ELSE [s |-> [s EXCEPT !.modeState.reverseStep = 1],
               ret |-> s.increment + 1 < s.puzzleset]
    ELSE [s |-> s, ret |-> s.increment + 1 < s.puzzleset]

\* loadPuzzle: moveHistory is the solution of the puzzle under the cursor
loadPuzzle_rev(s) ==
    [s EXCEPT !.loaded = s.PuzzleOrder[s.increment + 1],
              !.moveHistory = [i \in 1..s.lengths[s.PuzzleOrder[s.increment + 1] + 1] |-> i]]

\* The last correct move of the puzzle: the hook of the move, the question,
\* then the next puzzle, the same puzzle one step earlier, or the end.
puzzleSolved_rev(s) ==
    LET r == shouldContinueToNextPuzzle_rev(handleCorrectMove_rev(s))
    IN  IF r.ret THEN loadPuzzle_rev([r.s EXCEPT !.increment = @ + 1])
        ELSE IF r.s.currentGameMode = REVERSE /\ r.s.modeState.reverseStep > 1
        THEN loadPuzzle_rev(r.s)
        ELSE [r.s EXCEPT !.setcomplete = TRUE]

\* The globals after page load and loadPGNFile of a file whose puzzles have
\* the solution lengths `lengths`.
reverseGlobals(lengths) ==
    loadPuzzle_rev(resetModeState_rev(
        [currentGameMode |-> STANDARD,
         modeState       |-> [reverseStep |-> 1],
         puzzleset       |-> Len(lengths),
         lengths         |-> lengths,
         PuzzleOrder     |-> identityOrder(Len(lengths)),
         increment       |-> 0,
         setcomplete     |-> FALSE,
         loaded          |-> 0,
         moveHistory     |-> << >>]))

SetGameModeReverse ==
    /\ \E mode \in {STANDARD, REVERSE}, confirmed \in BOOLEAN :
          g' = setGameMode_rev(g, mode, confirmed)
    /\ pre' = History
    /\ lastOp' = "setGameMode"
    /\ UNCHANGED <<now, preNow, ret, blockErr, blockDone, reviews, bonus5>>

HintUsedReverse ==
    /\ ~g.setcomplete
    /\ g.modeState.hintsRemaining > 0 - MaxReverseHints
    /\ g' = handleHintUsed_rev(g)
    /\ pre' = History
    /\ lastOp' = "handleHintUsed"
    /\ UNCHANGED <<now, preNow, ret, blockErr, blockDone, reviews, bonus5>>

PuzzleSolvedReverse ==
    /\ ~g.setcomplete
    /\ g.modeState.totalSolved < MaxReverseSolved
    /\ g' = puzzleSolved_rev(g)
    /\ ret' = shouldContinueToNextPuzzle_rev(handleCorrectMove_rev(g)).ret
    /\ pre' = History
    /\ lastOp' = "puzzleSolved"
    /\ UNCHANGED <<now, preNow, blockErr, blockDone, reviews, bonus5>>

InitReverseStep ==
    /\ \E n \in 1..MaxReversePuzzles :
          \E lengths \in [1..n -> 1..MaxReverseLen] : g = reverseGlobals(lengths)
    /\ now = 0
    /\ pre = [g |-> g, now |-> now, preNow |-> now, lastOp |-> "init",
              blockErr |-> FALSE, blockDone |-> 0, bonus5 |-> 0]
    /\ preNow = now
    /\ lastOp = "init"
    /\ ret = TRUE
    /\ blockErr = FALSE
    /\ blockDone = 0
    /\ reviews = 0
    /\ bonus5 = 0

NextReverseStep == SetGameModeReverse \/ HintUsedReverse \/ PuzzleSolvedReverse

SpecReverseStep == InitReverseStep /\ [][NextReverseStep]_vars

reverseCompletion == lastOp = "puzzleSolved" /\ pre.g.currentGameMode = REVERSE

----------------------------------------------------------------------------
(* The cursor at every load of a puzzle *)

\* The step just taken loaded a puzzle as puzzleset[PuzzleOrder[increment]]:
\* the hook answered advance and the caller moved the cursor and loaded.
loadStep == lastOp = "puzzleSolved" /\ ret = TRUE

\* C31: whenever a puzzle is loaded as puzzleset[PuzzleOrder[increment]],
\* 0 <= increment < length of PuzzleOrder holds, in every mode and after any
\* sequence of puzzle completions, including the completion of the last
\* puzzle of the set in level-gated mode (also when the set size is not a
\* multiple of the block size) and in Infinity mode.
C31_CursorInRangeAtLoad ==
    loadStep => (g.increment >= 0 /\ g.increment < Len(g.PuzzleOrder))

----------------------------------------------------------------------------
(* The block of level-gated mode *)

\* start is the block start index of a level-gated session with blocks of N
\* puzzles at level `level`, and the puzzle under the cursor, if one is
\* loaded, lies in the block.
blockAligned(start, N, level, cursor, isLoaded) ==
    /\ start % N = 0
    /\ level = start \div N + 1
    /\ isLoaded => (start <= cursor /\ cursor < start + N)

\* The same statement on part_004 (repetitionSetStartIndex, puzzlesPerLevel).
blockAligned_p4 ==
    g.currentGameMode = REPETITION =>
        blockAligned(g.repetitionSetStartIndex, g.puzzlesPerLevel,
                     g.modeState.currentLevel, g.increment,
                     g.loaded # Undefined /\ lastOp = "puzzleSolved")

\* C32: in level-gated mode, in every reachable state the block start index
\* is a multiple of the block size N, currentLevel equals blockStart / N + 1,
\* and whenever a puzzle is loaded blockStart <= increment < blockStart + N
\* (also after a reset that restores a saved block start index).
C32_BlockStartAligned ==
    g.currentGameMode = REPETITION =>
        blockAligned(g.repState.levelStartIncrement, g.REP_LEVEL_SIZE,
                     g.repState.currentLevel, g.increment,
                     g.loaded # Undefined /\ lastOp \in {"puzzleSolved", "restartCallback"})

----------------------------------------------------------------------------
(* The levels of one level-gated session *)

\* The step just taken is a move of a session in Repetition mode.
sessionStep ==
    /\ lastOp \in {"wrongMove", "puzzleSolved"}
    /\ pre.g.currentGameMode = REPETITION

\* The step just taken completed a puzzle at or past the end of the block.
blockJudged ==
    /\ lastOp = "puzzleSolved"
    /\ (pre.g.increment - pre.g.repetitionSetStartIndex) + 1 >= pre.g.puzzlesPerLevel

\* part_004: the levels and block starts of one session
levelsNeverDecrease_p4 ==
    sessionStep =>
        LET start   == pre.g.repetitionSetStartIndex
            level   == pre.g.modeState.currentLevel
            sameBlock ==
                /\ g.repetitionSetStartIndex = start
                /\ g.modeState.currentLevel = level
            restarted ==
                /\ sameBlock
                /\ g.increment = start
                /\ g.modeState.levelProgress = 0
                /\ ~g.repetitionSetHadError
            nextBlock ==
                /\ g.repetitionSetStartIndex = pre.g.increment + 1
                /\ g.modeState.currentLevel = level + 1
                /\ g.increment = g.repetitionSetStartIndex
                /\ g.modeState.levelProgress = 0
                /\ ~g.repetitionSetHadError
        IN  /\ g.repetitionSetStartIndex >= start
            /\ g.modeState.currentLevel >= level
            /\ IF blockJudged THEN restarted \/ nextBlock ELSE sameBlock
            /\ (blockJudged /\ pre.blockErr) => restarted
            /\ (blockEndStep /\ ~pre.blockErr /\ pre.blockDone = pre.g.puzzlesPerLevel - 1) =>
                  (nextBlock /\ g.repetitionSetStartIndex = start + pre.g.puzzlesPerLevel)

\* The second block of a session was dirty and starts again.
secondBlockRestarted_p4 ==
    /\ sessionStep
    /\ blockJudged
    /\ pre.blockErr
    /\ pre.g.modeState.currentLevel = 2
    /\ pre.g.puzzlesPerLevel >= 2
    /\ g.repetitionSetStartIndex = pre.g.puzzlesPerLevel
    /\ g.increment = g.repetitionSetStartIndex

\* The step just taken is a move of a session of the hook variant (part_001).
sessionStep_hook ==
    /\ lastOp \in {"startTest", "wrongMove", "puzzleSolved", "restartCallback"}
    /\ pre.g.currentGameMode = REPETITION

\* C33: in level-gated mode, within one session currentLevel and the block
\* start index never decrease: a dirty block leads back to the same block
\* start with counters zeroed, a clean block leads to the next block, and no
\* other transition changes them.
C33_LevelsNeverDecrease ==
    sessionStep_hook =>
        LET start == pre.g.repState.levelStartIncrement
            level == pre.g.repState.currentLevel
            dirty == pre.g.repState.levelErrors > 0 \/ pre.g.error
            judged == /\ lastOp = "puzzleSolved"
                      /\ repPuzzlesDoneInLevel(pre.g) >= repLevelEnd(pre.g) - start
        IN  /\ g.repState.levelStartIncrement >= start
            /\ g.repState.currentLevel >= level
            /\ (judged /\ dirty) =>
                  /\ g.repState.levelStartIncrement = start
                  /\ g.repState.currentLevel = level
                  /\ g.repState.levelErrors = 0
            /\ (judged /\ ~dirty) =>
                  /\ g.repState.levelStartIncrement > start
                  /\ g.repState.currentLevel = level + 1
            /\ ~judged =>
                  /\ g.repState.levelStartIncrement = start
                  /\ g.repState.currentLevel = level

----------------------------------------------------------------------------
(* Adaptive sessions of any length (part_004): the queue is rebuilt after   *)
(* every completion and the head of the rebuilt queue is presented.        *)

MaxStarvePuzzles == 3   \* puzzle sets of 1..MaxStarvePuzzles puzzles

\* A completion is followed while the interval of the card stays within
\* MaxInterval.
withinIntervalCap(s) ==
    ~s.srCurrentPuzzleHadError =>
        LET i == s.PuzzleOrder[s.increment + 1]
        IN  (hasCard(s.srCards, i) /\ s.srCards[i].repetitions >= 2) =>
                s.srCards[i].interval * s.srCards[i].easeFactor <= MaxInterval * 100 + 49

\* The user plays the last move of the puzzle's solution.
PuzzleSolvedAdaptive ==
    /\ canMove
    /\ withinIntervalCap(g)
    /\ g' = puzzleSolved(g, now)
    /\ pre' = History
    /\ lastOp' = "puzzleSolved"
    /\ ret' = retOf(g, now)
    /\ preNow' = now
    /\ UNCHANGED <<now, blockErr, blockDone, reviews, bonus5>>

InitStarve ==
    /\ \E n \in 1..MaxStarvePuzzles :
          g = setGameMode(loadedGlobals(n, puzzlesPerLevelDefault), INFINITY, TRUE)
    /\ now = 0
    /\ pre = [g |-> g, now |-> 0, preNow |-> 0, lastOp |-> "setGameMode",
              blockErr |-> FALSE, blockDone |-> 0, bonus5 |-> 0]
    /\ preNow = 0
    /\ lastOp = "setGameMode"
    /\ ret = TRUE
    /\ blockErr = FALSE
    /\ blockDone = 0
    /\ reviews = 0
    /\ bonus5 = 0

\* No incorrect move and no hint: every completion is one without error.
NextStarve == Tick \/ PuzzleSolvedAdaptive \/ StartTest

\* PuzzleSolvedAdaptive is enabled (every such step changes pre).
completionEnabled == canMove /\ withinIntervalCap(g)

\* The user completes the puzzle on the board sooner or later: weak
\* fairness of the completion, WF_vars(PuzzleSolvedAdaptive), with its
\* enabling condition written out.
SpecStarve ==
    /\ InitStarve
    /\ [][NextStarve]_vars
    /\ (<>[]completionEnabled) => ([]<><<PuzzleSolvedAdaptive>>_vars)

----------------------------------------------------------------------------
(* The card of the completed puzzle (part_004).  In these sessions blockErr *)
(* records that an incorrect move was played or a hint was asked since the  *)
(* puzzle on the board was loaded.                                          *)

\* The user plays a legal move that is not the solution's move.
WrongMoveCard ==
    /\ canMove
    /\ g' = wrongMove(g)
    /\ pre' = History
    /\ lastOp' = "wrongMove"
    /\ blockErr' = TRUE
    /\ UNCHANGED <<now, preNow, ret, blockDone, reviews, bonus5>>

\* The user presses Hint.
HintUsedCard ==
    /\ canMove
    /\ g' = handleHintUsed(g)
    /\ pre' = History
    /\ lastOp' = "handleHintUsed"
    /\ blockErr' = TRUE
    /\ UNCHANGED <<now, preNow, ret, blockDone, reviews, bonus5>>

\* The user plays the last move of the puzzle's solution.
PuzzleSolvedCard ==
    /\ canMove
    /\ withinCap(g)
    /\ g' = puzzleSolved(g, now)
    /\ pre' = History
    /\ lastOp' = "puzzleSolved"
    /\ ret' = retOf(g, now)
    /\ preNow' = now
    /\ blockErr' = FALSE
    /\ reviews' = min(reviews + 1, MaxReviews)
    /\ UNCHANGED <<now, blockDone, bonus5>>

\* The user presses Start.
StartTestCard ==
    /\ g' = startTest(g, now)
    /\ pre' = History
    /\ lastOp' = "startTest"
    /\ preNow' = now
    /\ blockErr' = FALSE
    /\ UNCHANGED <<now, ret, blockDone, reviews, bonus5>>

InitCard ==
    /\ \E n \in 1..MaxSRPuzzles :
          g = setGameMode(loadedGlobals(n, puzzlesPerLevelDefault), INFINITY, TRUE)
    /\ now = 0
    /\ pre = [g |-> g, now |-> 0, preNow |-> 0, lastOp |-> "setGameMode",
              blockErr |-> FALSE, blockDone |-> 0, bonus5 |-> 0]
    /\ preNow = 0
    /\ lastOp = "setGameMode"
    /\ ret = TRUE
    /\ blockErr = FALSE
    /\ blockDone = 0
    /\ reviews = 0
    /\ bonus5 = 0

NextCard == Tick \/ WrongMoveCard \/ HintUsedCard \/ PuzzleSolvedCard \/ StartTestCard

SpecCard == InitCard /\ [][NextCard]_vars

\* The card srGetCard makes for a puzzle that has none.
newCard(i, t) ==
    [index |-> i, interval |-> 1, easeFactor |-> 250, repetitions |-> 0,
     nextReview |-> t, due |-> TRUE]

\* C35: on every puzzle completion in adaptive mode, the card of the
\* just-completed puzzle (created with interval 1, ease factor 2.5,
\* repetitions 0 if it did not exist) is updated with quality 1 if any
\* incorrect move or hint occurred on that puzzle since it was loaded and
\* with quality 4 otherwise, the cards of all other puzzles are unchanged,
\* and the per-puzzle error flag is cleared.
C35_CompletedCardUpdated ==
    (lastOp = "puzzleSolved" /\ pre.g.currentGameMode = INFINITY) =>
        \* preNow is the time of the completion
        LET i       == pre.g.loaded
            before  == IF i \in DOMAIN pre.g.srCards THEN pre.g.srCards[i]
                       ELSE newCard(i, preNow)
            quality == IF pre.blockErr THEN 1 ELSE 4
            c1      == [before EXCEPT !.easeFactor =
                           max(130, @ + 10 - (5 - quality) * (8 + (5 - quality) * 2))]
            iv      == IF before.repetitions = 0 THEN 1
                       ELSE IF before.repetitions = 1 THEN 6
                       ELSE (before.interval * c1.easeFactor + 50) \div 100
            after   == IF quality = 1
                       THEN [c1 EXCEPT !.repetitions = 0, !.interval = 1,
                                       !.nextReview = preNow - 1, !.due = TRUE]
                       ELSE [c1 EXCEPT !.repetitions = @ + 1, !.interval = iv,
                                       !.nextReview = preNow + iv * msPerDay,
                                       !.due = FALSE]
        IN  /\ DOMAIN g.srCards = DOMAIN pre.g.srCards \cup {i}
            /\ g.srCards[i] = after
            /\ \A j \in DOMAIN pre.g.srCards : j # i => g.srCards[j] = pre.g.srCards[j]
            /\ ~g.srCurrentPuzzleHadError

\* A puzzle solved cleanly before is completed after a hint and no incorrect
\* move, while another puzzle has a card.
C35_Witness ==
    /\ lastOp = "puzzleSolved"
    /\ pre.g.currentGameMode = INFINITY
    /\ pre.blockErr
    /\ ~pre.g.error
    /\ pre.g.loaded \in DOMAIN pre.g.srCards
    /\ pre.g.srCards[pre.g.loaded].repetitions = 1
    /\ g.srCards[pre.g.loaded].repetitions = 0
    /\ Cardinality(DOMAIN g.srCards) = 2

----------------------------------------------------------------------------
(* The within-session retry of part_005 *)

\* The step just taken completed, in the re-inserting queue, a puzzle on
\* which an error had occurred.
failedCompletion ==
    /\ lastOp = "puzzleSolved"
    /\ pre.g.currentGameMode = INFINITY
    /\ pre.g.variant = "part_005"
    /\ pre.g.srCurrentPuzzleHadError

\* The puzzle the step just taken completed.
completedPuzzle == pre.g.PuzzleOrder[pre.g.increment + 1]

\* C36: in the within-session retry variant of adaptive mode, a puzzle
\* completed with an error is reinserted into the live queue at index
\* min(cursor + 4, queue length), and it is never the very next puzzle
\* presented, for every cursor position including the last queue entry.
C36_FailedPuzzleNotNext ==
    failedCompletion =>
        /\ g.PuzzleOrder =
              splice(pre.g.PuzzleOrder,
                     min(pre.g.increment + 4, Len(pre.g.PuzzleOrder)),
                     completedPuzzle)
        /\ g.PuzzleOrder[g.increment + 1] # completedPuzzle


\* The step just taken completed a puzzle in the re-inserting queue.
retryCompletion ==
    /\ lastOp = "puzzleSolved"
    /\ pre.g.currentGameMode = INFINITY
    /\ pre.g.variant = "part_005"

\* The card of the completed puzzle before the step (the one srGetCard makes
\* if there was none).
cardBeforeCompletion ==
    IF completedPuzzle \in DOMAIN pre.g.srCards THEN pre.g.srCards[completedPuzzle]
    ELSE newCard(completedPuzzle, now)

\* C37: in the within-session retry variant, a failed attempt changes only
\* the card's nextReview and due flag and never its interval, easeFactor or
\* repetitions; the SM-2 update is applied only on a completion without
\* error, with quality 1 if the puzzle was pending retry and quality 4
\* otherwise.
C37_FailedAttemptKeepsTheSchedule ==
    /\ retryCompletion =>
          /\ DOMAIN g.srCards = DOMAIN pre.g.srCards \cup {completedPuzzle}
          /\ \A j \in DOMAIN pre.g.srCards :
                j # completedPuzzle => g.srCards[j] = pre.g.srCards[j]
          /\ IF pre.g.srCurrentPuzzleHadError
             THEN /\ g.srCards[completedPuzzle].interval = cardBeforeCompletion.interval
                  /\ g.srCards[completedPuzzle].easeFactor = cardBeforeCompletion.easeFactor
                  /\ g.srCards[completedPuzzle].repetitions = cardBeforeCompletion.repetitions
                  /\ g.srCards[completedPuzzle].index = cardBeforeCompletion.index
                  /\ g.srCards[completedPuzzle].nextReview = now - 1
                  /\ g.srCards[completedPuzzle].due
             ELSE g.srCards[completedPuzzle] =
                     srApplySM2(cardBeforeCompletion,
                                IF completedPuzzle \in pre.g.srPendingRetry THEN 1 ELSE 4,
                                now)
    /\ (lastOp = "wrongMove" /\ pre.g.variant = "part_005") => g.srCards = pre.g.srCards

\* A puzzle with a stored clean card was failed (the card kept its schedule)
\* and is now completed without error while pending retry.
C37_Witness ==
    /\ retryCompletion
    /\ ~pre.g.srCurrentPuzzleHadError
    /\ completedPuzzle \in pre.g.srPendingRetry
    /\ completedPuzzle \in DOMAIN pre.g.srCards
    /\ pre.g.srCards[completedPuzzle].repetitions = 1
    /\ pre.g.srCards[completedPuzzle].nextReview = now - 1
    /\ g.srCards[completedPuzzle].repetitions = 0


\* The occurrences of puzzle p in the queue of s that are still to be
\* completed: the queue indices from the cursor of s on.
occurrencesAhead(s, p) ==
    {k \in 1..Len(s.PuzzleOrder) : k > s.increment /\ s.PuzzleOrder[k] = p}

\* The completion just handled reached the end of the pass: srAdvance rebuilt
\* the queue and the cursor landed on 0.
rebuiltQueue == retryCompletion /\ g.increment = 0

\* C38: in the within-session retry variant, after handling any puzzle
\* completion every puzzle in srPendingRetry has exactly one occurrence in
\* srQueue at an index greater than the cursor of the completed puzzle, and
\* srPendingRetry is empty at every end-of-pass rebuild.
C38_PendingRetryIsQueuedOnce ==
    /\ retryCompletion =>
          \A p \in g.srPendingRetry : Cardinality(occurrencesAhead(g, p)) = 1
    /\ rebuiltQueue => g.srPendingRetry = {}

\* A pass that held a retry ends: the last queue entry is the retry of a
\* pending puzzle, it is solved without error and the queue is rebuilt.
C38_Witness ==
    /\ rebuiltQueue
    /\ Len(pre.g.PuzzleOrder) > pre.g.puzzleset
    /\ completedPuzzle \in pre.g.srPendingRetry
    /\ ~pre.g.srCurrentPuzzleHadError
    /\ g.srPendingRetry = {}


----------------------------------------------------------------------------
(* The end-of-session path of assets/game-modes.js *)

\* The handler just run called endGameSession: run on the state before it
\* with the over mark cleared, it sets the mark.
endGameSessionEntered ==
    \/ /\ lastOp = "wrongMove"
       /\ handleIncorrectMove_gm([pre.g EXCEPT !.over = FALSE]).over
    \/ /\ lastOp \in {"timerTick", "staleTimerTick"}
       /\ \E tm \in pre.g.timers :
             /\ g = timerTick_gm(pre.g, tm.speedrun)
             /\ timerTick_gm([pre.g EXCEPT !.over = FALSE], tm.speedrun).over

\* C39: in a timed or life-limited session the end-of-session path
\* (endGameSession: stop the timer, present the results) is entered at most
\* once per session, for every interleaving of timer ticks and incorrect
\* moves, including incorrect moves made after lives or time reached 0: no
\* handler enters it in a session that was ended and not reset since.
C39_SessionEndsOnce ==
    endGameSessionEntered => ~pre.g.over

====
